---- MODULE Spec2Model ----
(***************************************************************************)
(* Model of the entry storage of miniflux (SQLite edition): the entries    *)
(* table, RefreshFeedEntries with its one transaction per candidate, the   *)
(* detached cleanupEntries goroutine, the bulk status operations, the      *)
(* prev/next entry pagination, the share code of an entry and the detached *)
(* deletion of a user.                                                     *)
(*                                                                         *)
(* A row of the entries table is a record.  The columns title, url,        *)
(* comments_url, content, author, reading_time and tags are written by     *)
(* the same two statements (the INSERT of createEntry, the UPDATE of       *)
(* updateEntry) and by nothing else that is modelled: the column title     *)
(* stands for all of them.                                                 *)
(***************************************************************************)
EXTENDS Integers, Sequences, FiniteSets, Bags, TLC

VARIABLES
    entries,    \* the rows of table entries
    feeds,      \* table feeds: feed id -> user_id, category_id, hide_globally
    categories, \* table categories: category id -> user_id, hide_globally
    users,      \* the ids of the rows of table users
    enclosures, \* the rows of table enclosures: user_id, entry_id, url
    txs,        \* the calls that run one transaction at a time, per process
    fetched,    \* feed id -> the hashes of the latest fetch that has returned
    nextID,     \* the next value of entries.id (INTEGER PRIMARY KEY AUTOINCREMENT)
    now,        \* the clock read by datetime('now')
    sweeps,     \* the cleanupEntries goroutines started and not yet run (a bag)
    last        \* the step taken last: its operation, arguments and result

vars == <<entries, feeds, categories, users, enclosures, txs, fetched, nextID, now, sweeps, last>>

\* The tables the entry operations read; only CreateFeed adds a row to feeds
\* and only the deletion of a user takes rows away.
tables == <<feeds, categories, users>>

----------------------------------------------------------------------------
(* Bounds of the model. *)

MaxTime == 1        \* the clock runs from 0 to MaxTime
MaxID == 2          \* at most MaxID rows are ever inserted
MaxBatch == 2       \* candidates per RefreshFeedEntries call
MaxSweeps == 1      \* cleanupEntries goroutines pending at a time

----------------------------------------------------------------------------
(* The schema. *)

EntryStatusUnread == "unread"
EntryStatusRead == "read"
EntryStatusRemoved == "removed"
Statuses == {EntryStatusUnread, EntryStatusRead, EntryStatusRemoved}

Users == {1, 2}
Feeds == {1, 2}
Hashes == {"A", "B", "C"}
Titles == {"t1", "t2"}

\* feeds.user_id: feed f belongs to user FeedUser(f).
FeedUser(f) == f

Range(s) == {s[i] : i \in 1..Len(s)}

\* FOREIGN KEY (entry_id) REFERENCES entries(id) ON DELETE CASCADE: the
\* enclosures left when the table entries has become store.
Cascade(encl, store) == {x \in encl : \E e \in store : e.id = x.entry_id}

\* The processes that can run a call step by step, and none of them running.
Procs == {1, 2}
NoTx == [p \in Procs |-> [pc |-> "idle"]]

\* No fetch has returned yet.  The record is kept by the specification of
\* the sweeps that outlive their fetch; the others leave it as it is.
NoFetch == [f \in Feeds |-> {}]

\* Each user has one category and one feed in it, both shown globally.
Categories == {1, 2}
DefaultCategories == [c \in Categories |-> [user_id |-> c, hide_globally |-> FALSE]]
DefaultFeeds ==
    [f \in Feeds |-> [user_id |-> FeedUser(f), category_id |-> f, hide_globally |-> FALSE]]

----------------------------------------------------------------------------
(* The statements of the reconciler (part_002). *)

\* A candidate entry of a fetch: hash, title (standing for the refreshed
\* columns) and date (entry.Date, stored as published_at).
Candidate(h, t, d) == [hash |-> h, title |-> t, date |-> d]

\* Mutant of entryExists: the lookup forgets the feed.
entryExistsAnyFeed(store, feedID, hash) ==
    \E e \in store : e.hash = hash

\* SELECT true FROM entries WHERE feed_id=? AND hash=? LIMIT 1
entryExists(store, feedID, hash) ==
    \E e \in store : e.feed_id = feedID /\ e.hash = hash

\* INSERT INTO entries (title, hash, ..., published_at, ..., user_id, feed_id,
\* ..., changed_at, tags) VALUES (..., datetime('now'), ...): status, starred,
\* share_code and created_at take the defaults of the schema.
createEntry(store, id, userID, feedID, c, t) ==
    store \cup {[id |-> id,
                 user_id |-> userID,
                 feed_id |-> feedID,
                 hash |-> c.hash,
                 title |-> c.title,
                 status |-> EntryStatusUnread,
                 starred |-> FALSE,
                 share_code |-> "",
                 published_at |-> c.date,
                 created_at |-> t,
                 changed_at |-> t]}

\* The rows of UPDATE entries SET ... WHERE user_id=? AND feed_id=? AND hash=?
updateEntryRows(store, userID, feedID, hash) ==
    {e \in store : e.user_id = userID /\ e.feed_id = feedID /\ e.hash = hash}

\* Mutant of updateEntry: the update also writes the candidate's date.
updateEntryWithDate(store, userID, feedID, c, t) ==
    {IF e \in updateEntryRows(store, userID, feedID, c.hash)
        THEN [e EXCEPT !.title = c.title, !.published_at = c.date]
        ELSE e : e \in store}

\* Mutant of updateEntry: the update puts the entry back to unread.
updateEntryUnread(store, userID, feedID, c, t) ==
    {IF e \in updateEntryRows(store, userID, feedID, c.hash)
        THEN [e EXCEPT !.title = c.title, !.status = EntryStatusUnread]
        ELSE e : e \in store}

\* UPDATE entries SET title=?, url=?, comments_url=?, content=?, author=?,
\* reading_time=?, tags=? WHERE user_id=? AND feed_id=? AND hash=?
updateEntry(store, userID, feedID, c, t) ==
    {IF e \in updateEntryRows(store, userID, feedID, c.hash)
        THEN [e EXCEPT !.title = c.title]
        ELSE e : e \in store}

\* Mutant of RefreshTx: an updated entry is appended to newEntries too.
RefreshTxUpdateIsNew(store, id, call, c, t, dbOK) ==
    IF ~dbOK
      THEN [entries |-> store, err |-> TRUE, isNew |-> FALSE]
      ELSE IF entryExists(store, call.feedID, c.hash)
        THEN IF call.updateExisting
               THEN [entries |-> updateEntry(store, call.userID, call.feedID, c, t),
                     err |-> FALSE, isNew |-> TRUE]
               ELSE [entries |-> store, err |-> FALSE, isNew |-> FALSE]
        ELSE [entries |-> createEntry(store, id, call.userID, call.feedID, c, t),
              err |-> FALSE, isNew |-> TRUE]

\* One iteration of the loop of RefreshFeedEntries: Begin, entryExists, then
\* updateEntry or createEntry, then Commit.  dbOK = FALSE is a storage error
\* in any of these (the transaction is rolled back or never committed).
\* Result: the table, whether the iteration failed, whether a row was created.
RefreshTx(store, id, call, c, t, dbOK) ==
    LET exists == entryExists(store, call.feedID, c.hash) IN
    IF ~dbOK
      THEN [entries |-> store, err |-> TRUE, isNew |-> FALSE]
      ELSE IF exists
        THEN IF call.updateExisting
               THEN IF updateEntryRows(store, call.userID, call.feedID, c.hash) = {}
                      THEN [entries |-> store, err |-> TRUE, isNew |-> FALSE]
                      ELSE [entries |-> updateEntry(store, call.userID, call.feedID, c, t),
                            err |-> FALSE, isNew |-> FALSE]
               ELSE [entries |-> store, err |-> FALSE, isNew |-> FALSE]
        ELSE [entries |-> createEntry(store, id, call.userID, call.feedID, c, t),
              err |-> FALSE, isNew |-> TRUE]

\* DELETE FROM entries WHERE feed_id=? AND status='removed' AND hash NOT IN (...)
\* behind the early return on an empty list of hashes.
\* Mutant of cleanupEntries: the DELETE forgets the condition on status.
cleanupEntriesAnyStatus(store, feedID, entryHashes) ==
    IF Len(entryHashes) = 0 THEN store
    ELSE {e \in store : ~(e.feed_id = feedID /\ e.hash \notin Range(entryHashes))}

cleanupEntries(store, feedID, entryHashes) ==
    IF Len(entryHashes) = 0
      THEN store
      ELSE {e \in store : ~(e.feed_id = feedID
                            /\ e.status = EntryStatusRemoved
                            /\ e.hash \notin Range(entryHashes))}

----------------------------------------------------------------------------
(* The bulk status statements (part_002). *)

\* Mutant of RowsOfUser: the WHERE clause forgets the user.
RowsOfAnyUser(store, userID, entryIDs) ==
    {e \in store : e.id \in entryIDs}

\* The rows of UPDATE entries ... WHERE user_id=? AND id IN (...)
RowsOfUser(store, userID, entryIDs) ==
    {e \in store : e.user_id = userID /\ e.id \in entryIDs}

\* Mutant of SetEntriesStatusErr: the table has no CHECK on status.
SetEntriesStatusErrNoCheck(store, userID, entryIDs, status) == FALSE

\* UPDATE entries SET status=?, changed_at=datetime('now')
\* WHERE user_id=? AND id IN (...), behind the early return on an empty list.
\* The CHECK constraint on status fails the statement when a row would get a
\* status outside the three values.
SetEntriesStatusErr(store, userID, entryIDs, status) ==
    /\ entryIDs # {}
    /\ status \notin Statuses
    /\ RowsOfUser(store, userID, entryIDs) # {}

\* Mutant of SetEntriesStatusRows: no early return, and an empty list puts no
\* condition on the id.
SetEntriesStatusAllRows(store, userID, entryIDs, status, t) ==
    IF SetEntriesStatusErr(store, userID, entryIDs, status)
      THEN store
      ELSE {IF e.user_id = userID /\ (entryIDs = {} \/ e.id \in entryIDs)
              THEN [e EXCEPT !.status = status, !.changed_at = t]
              ELSE e : e \in store}

SetEntriesStatusRows(store, userID, entryIDs, status, t) ==
    IF entryIDs = {} \/ SetEntriesStatusErr(store, userID, entryIDs, status)
      THEN store
      ELSE {IF e \in RowsOfUser(store, userID, entryIDs)
              THEN [e EXCEPT !.status = status, !.changed_at = t]
              ELSE e : e \in store}

----------------------------------------------------------------------------
(* RefreshFeedEntries as a whole (part_002). *)

\* The loop of RefreshFeedEntries from candidate i on.  st holds the table,
\* the next id, newEntries, entryHashes and the outcome so far; failAt is the
\* index of the candidate whose transaction meets a storage error (0: none).
\* On an error the loop returns at once: k is the failing index.
RECURSIVE RefreshLoop(_, _, _, _, _)
RefreshLoop(st, call, i, t, failAt) ==
    IF i > Len(call.entries)
      THEN st
      ELSE LET c == call.entries[i]
               tx == RefreshTx(st.entries, st.nextID, call, c, t, i # failAt)
           IN IF tx.err
                THEN [st EXCEPT !.err = TRUE, !.k = i]
                ELSE RefreshLoop(
                       [entries |-> tx.entries,
                        nextID |-> IF tx.isNew THEN st.nextID + 1 ELSE st.nextID,
                        newEntries |-> IF tx.isNew
                                         THEN Append(st.newEntries,
                                                     [id |-> st.nextID, hash |-> c.hash])
                                         ELSE st.newEntries,
                        entryHashes |-> Append(st.entryHashes, c.hash),
                        err |-> FALSE,
                        k |-> 0],
                       call, i + 1, t, failAt)

\* Mutant of RefreshResult: one transaction for the whole batch, rolled back
\* on an error.
RefreshResultAtomic(store, id, call, t, failAt) ==
    LET r == RefreshLoop([entries |-> store, nextID |-> id, newEntries |-> <<>>,
                          entryHashes |-> <<>>, err |-> FALSE, k |-> 0],
                         call, 1, t, failAt)
    IN IF r.err THEN [r EXCEPT !.entries = store, !.nextID = id] ELSE r

RefreshResult(store, id, call, t, failAt) ==
    RefreshLoop([entries |-> store, nextID |-> id, newEntries |-> <<>>,
                 entryHashes |-> <<>>, err |-> FALSE, k |-> 0],
                call, 1, t, failAt)

\* What RefreshFeedEntries returns: (newEntries, nil) or (nil, err).
RefreshReturned(r) == IF r.err THEN <<>> ELSE r.newEntries

\* Mutant of RefreshSweeps: the goroutine is started on the error path too,
\* with the hashes committed so far.
RefreshSweepsAlways(r, feedID) ==
    SetToBag({[feedID |-> feedID, entryHashes |-> r.entryHashes]})

\* The goroutines RefreshFeedEntries starts: cleanupEntries(feedID, entryHashes)
\* once the loop is over, none when the loop returned an error.
RefreshSweeps(r, feedID) ==
    IF r.err THEN EmptyBag
             ELSE SetToBag({[feedID |-> feedID, entryHashes |-> r.entryHashes]})

----------------------------------------------------------------------------
(* The state machine. *)

Init ==
    /\ entries = {}
    /\ feeds = DefaultFeeds
    /\ categories = DefaultCategories
    /\ txs = NoTx
    /\ fetched = NoFetch
    /\ users = Users
    /\ enclosures = {}
    /\ nextID = 1
    /\ now = 0
    /\ sweeps = EmptyBag
    /\ last = [op |-> "init"]

\* time passes
Tick ==
    /\ now < MaxTime
    /\ now' = now + 1
    /\ last' = [op |-> "Tick"]
    /\ UNCHANGED <<entries, tables, txs, fetched, enclosures, nextID, sweeps>>

\* RefreshFeedEntries(userID, feedID, batch, upd), from the call to the return
RefreshCall(userID, feedID, batch, upd, failAt) ==
    /\ nextID + Len(batch) <= MaxID + 1
    /\ LET call == [userID |-> userID, feedID |-> feedID, entries |-> batch,
                    updateExisting |-> upd]
           r == RefreshResult(entries, nextID, call, now, failAt)
       IN /\ entries' = r.entries
          /\ nextID' = r.nextID
          /\ sweeps' = sweeps (+) RefreshSweeps(r, feedID)
          /\ last' = [op |-> "RefreshFeedEntries", feedID |-> feedID,
                      entries |-> batch, updateExisting |-> upd,
                      err |-> r.err, k |-> r.k,
                      newEntries |-> RefreshReturned(r)]
    /\ UNCHANGED <<tables, enclosures, txs, now>>

\* RefreshFeedEntries while fewer than MaxSweeps goroutines are pending
RefreshFeedEntries(userID, feedID, batch, upd, failAt) ==
    /\ BagCardinality(sweeps) < MaxSweeps
    /\ RefreshCall(userID, feedID, batch, upd, failAt)
    /\ UNCHANGED fetched

\* A started cleanupEntries goroutine runs; an error is logged only.
CleanupEntries(s) ==
    /\ BagIn(s, sweeps)
    /\ sweeps' = sweeps (-) SetToBag({s})
    /\ \E dbOK \in BOOLEAN :
        /\ entries' = IF dbOK THEN cleanupEntries(entries, s.feedID, s.entryHashes)
                              ELSE entries
        /\ last' = [op |-> "cleanupEntries", feedID |-> s.feedID,
                    entryHashes |-> s.entryHashes, err |-> ~dbOK,
                    deleted |-> {e.id : e \in entries \ entries'}]
    /\ enclosures' = Cascade(enclosures, entries')
    /\ UNCHANGED <<tables, txs, fetched, nextID, now>>

\* SetEntriesStatus(userID, entryIDs, status)
SetEntriesStatus(userID, entryIDs, status) ==
    /\ entries' = SetEntriesStatusRows(entries, userID, entryIDs, status, now)
    /\ last' = [op |-> "SetEntriesStatus", userID |-> userID,
                entryIDs |-> entryIDs, status |-> status,
                empty |-> entryIDs = {},
                err |-> SetEntriesStatusErr(entries, userID, entryIDs, status)]
    /\ UNCHANGED <<tables, txs, fetched, enclosures, nextID, now, sweeps>>

\* The inputs of the reconciler's specification.
\* A feed item without a date gets the time of the fetch as its date.
Candidates == {Candidate("A", "t1", now), Candidate("A", "t2", now),
               Candidate("B", "t1", now)}

Batches == UNION {[1..n -> Candidates] : n \in 0..MaxBatch}

IDLists == {{}} \cup {{i} : i \in 1..MaxID} \cup {1..MaxID}

\* The calls of RefreshFeedEntries: any batch for feed 1, and for feed 2 a
\* candidate whose hash feed 1 carries too.
Calls ==
    {[feedID |-> 1, entries |-> b, updateExisting |-> upd] :
        b \in Batches, upd \in BOOLEAN}
    \cup {[feedID |-> 2, entries |-> <<Candidate("A", "t1", now)>>,
           updateExisting |-> FALSE]}

\* The calls of SetEntriesStatus: the owner of feed 1 marks entries removed
\* or passes a status the schema refuses, and marks its first entry read;
\* the other user tries to remove that entry.
StatusCalls ==
    {[userID |-> 1, entryIDs |-> ids, status |-> st] :
        ids \in IDLists, st \in {EntryStatusRemoved, "unknown"}}
    \cup {[userID |-> 1, entryIDs |-> {1}, status |-> EntryStatusRead],
          [userID |-> 2, entryIDs |-> {1}, status |-> EntryStatusRemoved]}

Next ==
    \/ \E c \in Calls, failAt \in 0..MaxBatch :
          /\ failAt <= Len(c.entries)
          /\ RefreshFeedEntries(FeedUser(c.feedID), c.feedID, c.entries,
                                c.updateExisting, failAt)
    \/ \E s \in BagToSet(sweeps) : CleanupEntries(s)
    \/ \E c \in StatusCalls : SetEntriesStatus(c.userID, c.entryIDs, c.status)

\* The reconciler, the reaper and SetEntriesStatus at one instant of the clock.
Spec == Init /\ [][Next]_vars

\* The calls of the specification with a clock: one entry of feed 1, fetched
\* again and again with one title or the other.
ClockCalls ==
    {[feedID |-> 1, entries |-> <<Candidate("A", t, now)>>, updateExisting |-> upd] :
        t \in Titles, upd \in BOOLEAN}

NextClock ==
    \/ Tick
    \/ \E c \in ClockCalls, failAt \in 0..1 :
          RefreshFeedEntries(FeedUser(c.feedID), c.feedID, c.entries,
                             c.updateExisting, failAt)
    \/ \E s \in BagToSet(sweeps) : CleanupEntries(s)
    \/ \E u \in Users, ids \in IDLists, st \in Statuses :
          SetEntriesStatus(u, ids, st)

\* The same operations while time passes.
SpecClock == Init /\ [][NextClock]_vars

----------------------------------------------------------------------------
(* The reaper on its own: one started cleanupEntries goroutine meets a     *)
(* store that earlier refreshes and status changes have left behind.       *)

\* A row as createEntry inserted it at time 0, its status changed since.
StoredRow(id, feedID, hash, status) ==
    [id |-> id, user_id |-> FeedUser(feedID), feed_id |-> feedID, hash |-> hash,
     title |-> "t1", status |-> status, starred |-> FALSE, share_code |-> "",
     published_at |-> 0, created_at |-> 0, changed_at |-> 0]

\* The rows a store of this specification may hold: the three hashes in
\* feed 1 and hash B once more in feed 2.
ReaperSlots ==
    {[id |-> 1, feed_id |-> 1, hash |-> "A"], [id |-> 2, feed_id |-> 1, hash |-> "B"],
     [id |-> 3, feed_id |-> 1, hash |-> "C"], [id |-> 4, feed_id |-> 2, hash |-> "B"]}

ReaperStores ==
    {{StoredRow(x.id, x.feed_id, x.hash, f[x]) : x \in {y \in ReaperSlots : f[y] # "absent"}} :
        f \in {g \in [ReaperSlots -> Statuses \cup {"absent"}] :
                  \A y \in ReaperSlots :
                      y.feed_id = 2 => g[y] \in {"absent", EntryStatusRemoved}}}

\* The hash lists of the fetches whose sweep is pending.
HashLists == {<<>>, <<"A">>, <<"B">>, <<"A", "C">>, <<"A", "B", "C">>}

InitReaper ==
    /\ entries \in ReaperStores
    /\ feeds = DefaultFeeds
    /\ categories = DefaultCategories
    /\ txs = NoTx
    /\ fetched = NoFetch
    /\ users = Users
    /\ enclosures = {}
    /\ nextID = Cardinality(ReaperSlots) + 1
    /\ now = 0
    /\ \E f \in Feeds, hs \in HashLists :
          sweeps = SetToBag({[feedID |-> f, entryHashes |-> hs]})
    /\ last = [op |-> "init"]

NextReaper ==
    \/ \E s \in BagToSet(sweeps) : CleanupEntries(s)
    \/ \E c \in StatusCalls : SetEntriesStatus(c.userID, c.entryIDs, c.status)

SpecReaper == InitReaper /\ [][NextReaper]_vars

----------------------------------------------------------------------------
(* The bulk operations on the entries of all users (part_002). *)

ShareCodes == {"s1", "s2"}

\* Mutant of ArchiveCandidates: the SELECT forgets the share code.
ArchiveCandidatesShared(store, status, days, t) ==
    {e \in store : e.status = status /\ ~e.starred /\ e.created_at < t - days}

\* ArchiveEntries: the rows the inner SELECT may return before LIMIT.
ArchiveCandidates(store, status, days, t) ==
    {e \in store : /\ e.status = status
                    /\ ~e.starred
                    /\ e.share_code = ""
                    /\ e.created_at < t - days}

\* Mutant of ArchiveSelections: the SELECT sorts by created_at DESC.
ArchiveSelectionsNewest(store, status, days, limit, t) ==
    LET c == ArchiveCandidates(store, status, days, t)
    IN {S \in SUBSET c :
          /\ Cardinality(S) = IF limit < Cardinality(c) THEN limit ELSE Cardinality(c)
          /\ \A a \in S, b \in c \ S : a.created_at >= b.created_at}

\* ORDER BY created_at ASC LIMIT ?: the oldest rows; which of several rows
\* of one age are taken is left to the database.
ArchiveSelections(store, status, days, limit, t) ==
    LET c == ArchiveCandidates(store, status, days, t)
    IN {S \in SUBSET c :
          /\ Cardinality(S) = IF limit < Cardinality(c) THEN limit ELSE Cardinality(c)
          /\ \A a \in S, b \in c \ S : a.created_at <= b.created_at}

ArchiveRows(store, S) ==
    {IF e \in S THEN [e EXCEPT !.status = EntryStatusRemoved] ELSE e : e \in store}

\* Mutant of FlushHistoryRows: the UPDATE forgets the condition on status.
FlushHistoryRowsAnyStatus(store, userID, t) ==
    {IF e.user_id = userID /\ ~e.starred /\ e.share_code = ""
     THEN [e EXCEPT !.status = EntryStatusRemoved, !.changed_at = t]
     ELSE e : e \in store}

FlushHistoryRows(store, userID, t) ==
    {IF e.user_id = userID /\ e.status = EntryStatusRead /\ ~e.starred /\ e.share_code = ""
     THEN [e EXCEPT !.status = EntryStatusRemoved, !.changed_at = t]
     ELSE e : e \in store}

\* Mutant of ToggleBookmarkRows: the UPDATE forgets the user.
ToggleBookmarkRowsAnyUser(store, userID, entryID, t) ==
    {IF e.id = entryID
     THEN [e EXCEPT !.starred = ~e.starred, !.changed_at = t]
     ELSE e : e \in store}

ToggleBookmarkRows(store, userID, entryID, t) ==
    {IF e.user_id = userID /\ e.id = entryID
     THEN [e EXCEPT !.starred = ~e.starred, !.changed_at = t]
     ELSE e : e \in store}

\* Mutant of ArchiveEntries: no early return for days < 0 or limit <= 0.
ArchiveEntriesNoGuard(status, days, limit) ==
    /\ \E S \in ArchiveSelections(entries, status, days, limit, now) :
        /\ entries' = ArchiveRows(entries, S)
        /\ last' = [op |-> "ArchiveEntries", status |-> status, days |-> days,
                    limit |-> limit, count |-> Cardinality(S), err |-> FALSE]
    /\ UNCHANGED <<tables, txs, fetched, enclosures, nextID, now, sweeps>>

\* ArchiveEntries(status, days, limit)
ArchiveEntries(status, days, limit) ==
    /\ IF days < 0 \/ limit <= 0
       THEN /\ entries' = entries
            /\ last' = [op |-> "ArchiveEntries", status |-> status, days |-> days,
                        limit |-> limit, count |-> 0, err |-> FALSE]
       ELSE \E dbOK \in BOOLEAN :
              \E S \in ArchiveSelections(entries, status, days, limit, now) :
                /\ entries' = IF dbOK THEN ArchiveRows(entries, S) ELSE entries
                /\ last' = [op |-> "ArchiveEntries", status |-> status, days |-> days,
                            limit |-> limit,
                            count |-> IF dbOK THEN Cardinality(S) ELSE 0,
                            err |-> ~dbOK]
    /\ UNCHANGED <<tables, txs, fetched, enclosures, nextID, now, sweeps>>

\* FlushHistory(userID)
FlushHistory(userID) ==
    /\ \E dbOK \in BOOLEAN :
        /\ entries' = IF dbOK THEN FlushHistoryRows(entries, userID, now) ELSE entries
        /\ last' = [op |-> "FlushHistory", userID |-> userID, err |-> ~dbOK]
    /\ UNCHANGED <<tables, txs, fetched, enclosures, nextID, now, sweeps>>

\* ToggleBookmark(userID, entryID)
ToggleBookmark(userID, entryID) ==
    /\ entries' = ToggleBookmarkRows(entries, userID, entryID, now)
    /\ last' = [op |-> "ToggleBookmark", userID |-> userID, entryID |-> entryID,
                err |-> RowsOfUser(entries, userID, {entryID}) = {}]
    /\ UNCHANGED <<tables, txs, fetched, enclosures, nextID, now, sweeps>>

\* EntryShareCode(userID, entryID); code is the string the generator draws
\* when the row has no share code yet.
EntryShareCode(userID, entryID, code) ==
    /\ LET rows == RowsOfUser(entries, userID, {entryID})
           have == \E e \in rows : e.share_code # ""
           taken == \E e \in entries : e.share_code = code
       IN /\ entries' = IF rows = {} \/ have \/ taken THEN entries
                         ELSE {IF e \in rows THEN [e EXCEPT !.share_code = code] ELSE e :
                                  e \in entries}
          /\ last' = [op |-> "EntryShareCode", userID |-> userID, entryID |-> entryID,
                      err |-> rows = {} \/ (~have /\ taken),
                      shareCode |-> IF rows = {} THEN ""
                                    ELSE IF have THEN (CHOOSE e \in rows : TRUE).share_code
                                    ELSE code]
    /\ UNCHANGED <<tables, txs, fetched, enclosures, nextID, now, sweeps>>

\* The stores of this specification: one entry in each feed, unread or read,
\* created at some time before now.
BulkStores ==
    {{[StoredRow(1, 1, "A", s1) EXCEPT !.created_at = 0, !.changed_at = 0],
      [StoredRow(2, 2, "A", s2) EXCEPT !.created_at = c, !.changed_at = c]} :
        s1 \in {EntryStatusUnread, EntryStatusRead},
        s2 \in {EntryStatusUnread, EntryStatusRead},
        c \in 0..MaxTime}

InitBulk ==
    /\ entries \in BulkStores
    /\ feeds = DefaultFeeds
    /\ categories = DefaultCategories
    /\ txs = NoTx
    /\ fetched = NoFetch
    /\ users = Users
    /\ enclosures = {}
    /\ nextID = 3
    /\ now = MaxTime + 1
    /\ sweeps = EmptyBag
    /\ last = [op |-> "init"]

NextBulk ==
    \/ \E st \in Statuses, days \in (0 - 1)..(MaxTime + 1), limit \in 0..2 :
          ArchiveEntries(st, days, limit)
    \/ \E u \in Users : FlushHistory(u)
    \/ \E u \in Users, id \in 1..2 : ToggleBookmark(u, id)
    \/ \E u \in Users, id \in 1..2, code \in ShareCodes : EntryShareCode(u, id, code)

SpecBulk == InitBulk /\ [][NextBulk]_vars

----------------------------------------------------------------------------
(* The prev/next navigator, EntryPaginationBuilder (part_003).  Every      *)
(* entry has its feed and the feed its category, so the two JOINs keep     *)
(* every row.                                                              *)

Orders == {"published_at", "created_at"}
Directions == {"asc", "desc"}

\* The value of column e.<order>.
OrderValue(e, order) ==
    IF order = "published_at" THEN e.published_at ELSE e.created_at

\* A nil *model.Entry.
NilEntry == [id |-> 0, title |-> ""]

\* The conditions set by NewEntryPaginationBuilder.
PageConditions(store, userID) ==
    {e \in store : e.user_id = userID /\ e.status # EntryStatusRemoved}

\* The rows of the WHERE clause of prevQuery; the anchor is looked up by id alone.
PrevRows(store, userID, entryID, order) ==
    {e \in PageConditions(store, userID) :
        \E a \in store :
            /\ a.id = entryID
            /\ \/ OrderValue(e, order) < OrderValue(a, order)
               \/ (OrderValue(e, order) = OrderValue(a, order) /\ e.id > entryID)}

\* The rows of the WHERE clause of nextQuery.
NextRows(store, userID, entryID, order) ==
    {e \in PageConditions(store, userID) :
        \E a \in store :
            /\ a.id = entryID
            /\ \/ OrderValue(e, order) > OrderValue(a, order)
               \/ (OrderValue(e, order) = OrderValue(a, order) /\ e.id < entryID)}

\* Mutant of PrevFirst: prevQuery sorts as nextQuery does.
PrevFirstAscending(a, b, order) ==
    \/ OrderValue(a, order) < OrderValue(b, order)
    \/ /\ OrderValue(a, order) = OrderValue(b, order)
       /\ (a.created_at < b.created_at \/ (a.created_at = b.created_at /\ a.id > b.id))

\* ORDER BY e.<order> DESC, e.created_at DESC, e.id ASC
PrevFirst(a, b, order) ==
    \/ OrderValue(a, order) > OrderValue(b, order)
    \/ /\ OrderValue(a, order) = OrderValue(b, order)
       /\ (a.created_at > b.created_at \/ (a.created_at = b.created_at /\ a.id < b.id))

\* Mutant of NextFirst: ORDER BY e.<order> ASC, e.created_at ASC, e.id ASC
NextFirstIDAscending(a, b, order) ==
    \/ OrderValue(a, order) < OrderValue(b, order)
    \/ /\ OrderValue(a, order) = OrderValue(b, order)
       /\ (a.created_at < b.created_at \/ (a.created_at = b.created_at /\ a.id < b.id))

\* ORDER BY e.<order> ASC, e.created_at ASC, e.id DESC
NextFirst(a, b, order) ==
    \/ OrderValue(a, order) < OrderValue(b, order)
    \/ /\ OrderValue(a, order) = OrderValue(b, order)
       /\ (a.created_at < b.created_at \/ (a.created_at = b.created_at /\ a.id > b.id))

\* LIMIT 1 of each query; no row leaves the id at 0.
getPrevNextID(store, userID, entryID, order) ==
    LET P == PrevRows(store, userID, entryID, order)
        N == NextRows(store, userID, entryID, order)
    IN [prevID |-> IF P = {} THEN 0
                   ELSE (CHOOSE e \in P : \A o \in P \ {e} : PrevFirst(e, o, order)).id,
        nextID |-> IF N = {} THEN 0
                   ELSE (CHOOSE e \in N : \A o \in N \ {e} : NextFirst(e, o, order)).id]

\* SELECT id, title FROM entries WHERE id = ?; sql.ErrNoRows gives nil, nil.
getEntry(store, entryID) ==
    IF \E e \in store : e.id = entryID
    THEN LET e == CHOOSE x \in store : x.id = entryID
         IN [id |-> e.id, title |-> e.title]
    ELSE NilEntry

\* Mutant of EntriesResult: direction desc is not looked at.
EntriesResultNoSwap(store, userID, entryID, order, direction, dbOK) ==
    IF ~dbOK THEN [prev |-> NilEntry, next |-> NilEntry, err |-> TRUE]
    ELSE LET ids == getPrevNextID(store, userID, entryID, order)
         IN [prev |-> getEntry(store, ids.prevID),
             next |-> getEntry(store, ids.nextID), err |-> FALSE]

\* What Entries returns; dbOK is FALSE when Begin or a query fails.
EntriesResult(store, userID, entryID, order, direction, dbOK) ==
    IF ~dbOK THEN [prev |-> NilEntry, next |-> NilEntry, err |-> TRUE]
    ELSE LET ids == getPrevNextID(store, userID, entryID, order)
             prevEntry == getEntry(store, ids.prevID)
             nextEntry == getEntry(store, ids.nextID)
         IN IF direction = "desc"
            THEN [prev |-> nextEntry, next |-> prevEntry, err |-> FALSE]
            ELSE [prev |-> prevEntry, next |-> nextEntry, err |-> FALSE]

\* NewEntryPaginationBuilder(store, userID, entryID, order, direction).Entries()
Entries(userID, entryID, order, direction) ==
    /\ \E dbOK \in BOOLEAN :
        LET r == EntriesResult(entries, userID, entryID, order, direction, dbOK)
        IN last' = [op |-> "Entries", userID |-> userID, entryID |-> entryID,
                    order |-> order, direction |-> direction, dbOK |-> dbOK,
                    prev |-> r.prev, next |-> r.next, err |-> r.err]
    /\ UNCHANGED <<entries, tables, txs, fetched, enclosures, nextID, now, sweeps>>

\* The stores of this specification: three entries of user 1, published at
\* any times, each unread or removed, the third created with or after the
\* others, the first one never removed; one entry of user 2.
PageStores ==
    {{[StoredRow(1, 1, "A", st[1]) EXCEPT !.published_at = pub[1]],
      [StoredRow(2, 1, "B", st[2]) EXCEPT !.published_at = pub[2]],
      [StoredRow(3, 1, "C", st[3]) EXCEPT !.published_at = pub[3],
                                         !.created_at = c, !.changed_at = c],
      [StoredRow(4, 2, "A", EntryStatusUnread) EXCEPT !.published_at = 1]} :
        pub \in [1..3 -> 0..(MaxTime + 1)],
        st \in {f \in [1..3 -> {EntryStatusUnread, EntryStatusRemoved}] :
                   f[1] = EntryStatusUnread},
        c \in 0..1}

\* The calls of the navigator: user 1 from each of its entries and from an
\* entry that does not exist, user 2 from its own entry and from a foreign one.
PageCalls ==
    {[userID |-> 1, entryID |-> id] : id \in {1, 2, 3, 5}}
    \cup {[userID |-> 2, entryID |-> id] : id \in {1, 4}}

InitPage ==
    /\ entries \in PageStores
    /\ feeds = DefaultFeeds
    /\ categories = DefaultCategories
    /\ txs = NoTx
    /\ fetched = NoFetch
    /\ users = Users
    /\ enclosures = {}
    /\ nextID = 5
    /\ now = MaxTime + 1
    /\ sweeps = EmptyBag
    /\ last = [op |-> "init"]

NextPage ==
    \E c \in PageCalls, order \in Orders, direction \in Directions :
        Entries(c.userID, c.entryID, order, direction)

SpecPage == InitPage /\ [][NextPage]_vars

----------------------------------------------------------------------------
(* The bookmark operations (part_002). *)

\* The error "store: nothing has been updated": the UPDATE ran and its count
\* of affected rows is 0.  An empty list returns nil before the UPDATE.
SetEntriesBookmarkedStateErr(store, userID, entryIDs) ==
    entryIDs # {} /\ RowsOfUser(store, userID, entryIDs) = {}

\* UPDATE entries SET starred=?, changed_at=datetime('now')
\* WHERE user_id=? AND id IN (...)
SetEntriesBookmarkedStateRows(store, userID, entryIDs, starred, t) ==
    {IF e \in RowsOfUser(store, userID, entryIDs)
     THEN [e EXCEPT !.starred = starred, !.changed_at = t]
     ELSE e : e \in store}

\* SetEntriesBookmarkedState(userID, entryIDs, starred)
SetEntriesBookmarkedState(userID, entryIDs, starred) ==
    /\ entries' = SetEntriesBookmarkedStateRows(entries, userID, entryIDs, starred, now)
    /\ last' = [op |-> "SetEntriesBookmarkedState", userID |-> userID,
                entryIDs |-> entryIDs, starred |-> starred,
                err |-> SetEntriesBookmarkedStateErr(entries, userID, entryIDs)]
    /\ UNCHANGED <<tables, txs, fetched, enclosures, nextID, now, sweeps>>

\* Identifier lists of the bookmark calls: those of IDLists and an
\* identifier no row has.
StarIDLists == IDLists \cup {{3}}

NextStar ==
    \/ \E u \in Users, id \in 1..3 : ToggleBookmark(u, id)
    \/ \E u \in Users, ids \in StarIDLists, starred \in BOOLEAN :
          SetEntriesBookmarkedState(u, ids, starred)

\* The bookmark operations on the stores of SpecBulk.
SpecStar == InitBulk /\ [][NextStar]_vars

----------------------------------------------------------------------------
(* The Mark...AsRead family and SetEntriesStatusCount (part_002), on a     *)
(* store where user 1 has two feeds in two categories.                     *)

\* Mutant of MarkRead: the UPDATE forgets the condition status='unread'.
MarkReadAnyStatus(store, S, t) ==
    {IF e \in S THEN [e EXCEPT !.status = EntryStatusRead, !.changed_at = t] ELSE e :
        e \in store}

\* UPDATE entries SET status='read', changed_at=datetime('now') WHERE ... AND
\* status='unread', S being the rows the other conditions keep.
MarkRead(store, S, t) ==
    {IF e \in S /\ e.status = EntryStatusUnread
     THEN [e EXCEPT !.status = EntryStatusRead, !.changed_at = t]
     ELSE e : e \in store}

\* SELECT id FROM feeds WHERE user_id=? AND hide_globally=0
VisibleFeedsOf(userID) ==
    {f \in DOMAIN feeds : feeds[f].user_id = userID /\ ~feeds[f].hide_globally}

\* SELECT id FROM feeds WHERE user_id=? AND category_id=?
CategoryFeedsOf(userID, categoryID) ==
    {f \in DOMAIN feeds : feeds[f].user_id = userID /\ feeds[f].category_id = categoryID}

\* MarkAllAsRead(userID)
MarkAllAsRead(userID) ==
    /\ entries' = MarkRead(entries, {e \in entries : e.user_id = userID}, now)
    /\ last' = [op |-> "MarkAllAsRead", userID |-> userID]
    /\ UNCHANGED <<tables, txs, fetched, enclosures, nextID, now, sweeps>>

\* MarkAllAsReadBeforeDate(userID, before)
MarkAllAsReadBeforeDate(userID, before) ==
    /\ entries' = MarkRead(entries,
                           {e \in entries : e.user_id = userID /\ e.published_at < before},
                           now)
    /\ last' = [op |-> "MarkAllAsReadBeforeDate", userID |-> userID, before |-> before]
    /\ UNCHANGED <<tables, txs, fetched, enclosures, nextID, now, sweeps>>

\* MarkGloballyVisibleFeedsAsRead(userID)
MarkGloballyVisibleFeedsAsRead(userID) ==
    /\ entries' = MarkRead(entries,
                           {e \in entries : /\ e.feed_id \in VisibleFeedsOf(userID)
                                            /\ e.user_id = userID},
                           now)
    /\ last' = [op |-> "MarkGloballyVisibleFeedsAsRead", userID |-> userID]
    /\ UNCHANGED <<tables, txs, fetched, enclosures, nextID, now, sweeps>>

\* MarkFeedAsRead(userID, feedID, before)
MarkFeedAsRead(userID, feedID, before) ==
    /\ entries' = MarkRead(entries,
                           {e \in entries : /\ e.user_id = userID
                                            /\ e.feed_id = feedID
                                            /\ e.published_at < before},
                           now)
    /\ last' = [op |-> "MarkFeedAsRead", userID |-> userID, feedID |-> feedID,
                before |-> before]
    /\ UNCHANGED <<tables, txs, fetched, enclosures, nextID, now, sweeps>>

\* MarkCategoryAsRead(userID, categoryID, before)
MarkCategoryAsRead(userID, categoryID, before) ==
    /\ entries' = MarkRead(entries,
                           {e \in entries : /\ e.feed_id \in CategoryFeedsOf(userID, categoryID)
                                            /\ e.user_id = userID
                                            /\ e.published_at < before},
                           now)
    /\ last' = [op |-> "MarkCategoryAsRead", userID |-> userID,
                categoryID |-> categoryID, before |-> before]
    /\ UNCHANGED <<tables, txs, fetched, enclosures, nextID, now, sweeps>>

\* Mutant of VisibleCount: the query forgets the category.
VisibleCountFeedOnly(store, userID, entryIDs) ==
    Cardinality({e \in RowsOfUser(store, userID, entryIDs) :
                    ~feeds[e.feed_id].hide_globally})

\* SELECT count(*) FROM entries e JOIN feeds f JOIN categories c WHERE
\* e.user_id = ? AND e.id IN (...) AND f.hide_globally = 0 AND c.hide_globally = 0
VisibleCount(store, userID, entryIDs) ==
    Cardinality({e \in RowsOfUser(store, userID, entryIDs) :
                    /\ e.feed_id \in DOMAIN feeds
                    /\ feeds[e.feed_id].category_id \in DOMAIN categories
                    /\ ~feeds[e.feed_id].hide_globally
                    /\ ~categories[feeds[e.feed_id].category_id].hide_globally})

\* SetEntriesStatusCount(userID, entryIDs, status): SetEntriesStatus, then
\* the count of the rows still shown globally.
SetEntriesStatusCount(userID, entryIDs, status) ==
    /\ entries' = SetEntriesStatusRows(entries, userID, entryIDs, status, now)
    /\ last' = [op |-> "SetEntriesStatusCount", userID |-> userID,
                entryIDs |-> entryIDs, status |-> status,
                err |-> SetEntriesStatusErr(entries, userID, entryIDs, status),
                count |-> IF entryIDs = {}
                             \/ SetEntriesStatusErr(entries, userID, entryIDs, status)
                          THEN 0
                          ELSE VisibleCount(entries', userID, entryIDs)]
    /\ UNCHANGED <<tables, txs, fetched, enclosures, nextID, now, sweeps>>

\* Feeds 1 and 3 belong to user 1, in categories 1 and 3; feed 2 and
\* category 2 belong to user 2.  Feed 1, feed 3 and category 1 are hidden
\* globally or not.
MarkFeeds ==
    {[f \in 1..3 |-> [user_id |-> IF f = 2 THEN 2 ELSE 1, category_id |-> f,
                      hide_globally |-> h[f]]] :
        h \in {g \in [1..3 -> BOOLEAN] : ~g[2]}}

MarkCategories ==
    {[c \in 1..3 |-> [user_id |-> IF c = 2 THEN 2 ELSE 1,
                      hide_globally |-> (c = 1 /\ h)]] : h \in BOOLEAN}

\* One entry in each feed.
MarkStores ==
    {{[StoredRow(1, 1, "A", s1) EXCEPT !.published_at = p1],
      StoredRow(2, 2, "A", EntryStatusUnread),
      [StoredRow(3, 3, "A", s3) EXCEPT !.user_id = 1, !.published_at = p3]} :
        s1 \in {EntryStatusUnread, EntryStatusRemoved},
        s3 \in {EntryStatusUnread, EntryStatusRead},
        p1 \in 0..MaxTime, p3 \in 0..MaxTime}

InitMark ==
    /\ entries \in MarkStores
    /\ feeds \in MarkFeeds
    /\ categories \in MarkCategories
    /\ txs = NoTx
    /\ fetched = NoFetch
    /\ users = Users
    /\ enclosures = {}
    /\ nextID = 4
    /\ now = MaxTime + 1
    /\ sweeps = EmptyBag
    /\ last = [op |-> "init"]

\* The cutoffs of the calls with a date.
Cutoffs == 0..(MaxTime + 1)

\* The calls of SetEntriesStatusCount.
CountCalls ==
    {[userID |-> 1, entryIDs |-> ids, status |-> st] :
        ids \in {{}, {1}, {1, 3}, {1, 2, 3}},
        st \in {EntryStatusUnread, EntryStatusRemoved, "unknown"}}
    \cup {[userID |-> 2, entryIDs |-> {1, 2}, status |-> EntryStatusRead]}

NextMark ==
    \/ \E u \in Users : MarkAllAsRead(u)
    \/ \E u \in Users, before \in Cutoffs : MarkAllAsReadBeforeDate(u, before)
    \/ \E u \in Users : MarkGloballyVisibleFeedsAsRead(u)
    \/ \E f \in 1..3, before \in Cutoffs : MarkFeedAsRead(1, f, before)
    \/ \E c \in 1..3, before \in Cutoffs : MarkCategoryAsRead(1, c, before)
    \/ \E c \in CountCalls : SetEntriesStatusCount(c.userID, c.entryIDs, c.status)

SpecMark == InitMark /\ [][NextMark]_vars

----------------------------------------------------------------------------
(* All the bulk operations together, on the stores of SpecBulk: one entry  *)
(* of each user.                                                           *)

NextScope ==
    \/ \E c \in StatusCalls : SetEntriesStatus(c.userID, c.entryIDs, c.status)
    \/ \E u \in Users : SetEntriesStatusCount(u, {1, 2}, EntryStatusRead)
    \/ \E u \in Users : SetEntriesBookmarkedState(u, {1, 2}, TRUE)
    \/ \E u \in Users, id \in 1..2 : ToggleBookmark(u, id)
    \/ \E st \in {EntryStatusUnread, EntryStatusRead}, limit \in 1..2 :
          ArchiveEntries(st, 0, limit)
    \/ \E u \in Users : FlushHistory(u)
    \/ \E u \in Users : MarkAllAsRead(u)
    \/ \E u \in Users : MarkAllAsReadBeforeDate(u, now)
    \/ \E u \in Users : MarkGloballyVisibleFeedsAsRead(u)
    \/ \E u \in Users, f \in Feeds : MarkFeedAsRead(u, f, now)
    \/ \E u \in Users, c \in Categories : MarkCategoryAsRead(u, c, now)

SpecScope == InitBulk /\ [][NextScope]_vars

----------------------------------------------------------------------------
(* RefreshFeedEntries (part_002) and CreateFeed (part_004) step by step:   *)
(* each candidate has its own transaction, and between the SELECT of       *)
(* entryExists and the INSERT of createEntry another process can commit.   *)

MaxFeeds == 3       \* at most MaxFeeds rows in table feeds

\* Mutant of InsertRefused: the table has no UNIQUE (feed_id, hash) and a
\* transaction with a stale snapshot may write.
InsertRefusedNever(store, feedID, hash) == FALSE

\* The INSERT of createEntry is refused when a row with the feed and hash
\* has been committed since the transaction read: UNIQUE (feed_id, hash)
\* fails the statement.
InsertRefused(store, feedID, hash) ==
    \E e \in store : e.feed_id = feedID /\ e.hash = hash

\* The candidates a running call has still to process.
Pending(p) ==
    IF txs[p].pc = "idle" THEN 0 ELSE Len(txs[p].entries) - txs[p].i + 1

\* A call of RefreshFeedEntries starts.
RefreshStart(p, feedID, batch, upd) ==
    /\ txs[p].pc = "idle"
    /\ feedID \in DOMAIN feeds
    /\ nextID + Len(batch) + Pending(3 - p) <= MaxID + 1
    /\ txs' = [txs EXCEPT ![p] = [pc |-> "begin", op |-> "RefreshFeedEntries",
                                  userID |-> feeds[feedID].user_id, feedID |-> feedID,
                                  entries |-> batch, updateExisting |-> upd,
                                  i |-> 1, seen |-> FALSE]]
    /\ last' = [op |-> "RefreshStart", p |-> p]
    /\ UNCHANGED <<entries, tables, fetched, enclosures, nextID, now, sweeps>>

\* A call of CreateFeed starts: the INSERT INTO feeds commits on its own.
CreateFeedStart(p, userID, batch) ==
    /\ txs[p].pc = "idle"
    /\ Cardinality(DOMAIN feeds) < MaxFeeds
    /\ nextID + Len(batch) + Pending(3 - p) <= MaxID + 1
    /\ LET feedID == Cardinality(DOMAIN feeds) + 1
       IN /\ feeds' = [f \in DOMAIN feeds \cup {feedID} |->
                          IF f \in DOMAIN feeds THEN feeds[f]
                          ELSE [user_id |-> userID, category_id |-> userID,
                                hide_globally |-> FALSE]]
          /\ txs' = [txs EXCEPT ![p] = [pc |-> "begin", op |-> "CreateFeed",
                                        userID |-> userID, feedID |-> feedID,
                                        entries |-> batch, updateExisting |-> FALSE,
                                        i |-> 1, seen |-> FALSE]]
    /\ last' = [op |-> "CreateFeedStart", p |-> p]
    /\ UNCHANGED <<entries, categories, users, fetched, enclosures, nextID, now, sweeps>>

\* tx := db.Begin(); entryExists(tx, entry)
TxExists(p) ==
    /\ txs[p].pc = "begin"
    /\ txs[p].i <= Len(txs[p].entries)
    /\ txs' = [txs EXCEPT ![p].pc = "checked",
                          ![p].seen = entryExists(entries, txs[p].feedID,
                                                  txs[p].entries[txs[p].i].hash)]
    /\ last' = [op |-> "entryExists", p |-> p]
    /\ UNCHANGED <<entries, tables, fetched, enclosures, nextID, now, sweeps>>

\* The rest of the transaction: updateEntry or createEntry, then Commit, or
\* Rollback and the return of the error.
TxWrite(p) ==
    /\ txs[p].pc = "checked"
    /\ LET t == txs[p]
           c == t.entries[t.i]
       IN IF t.seen
          THEN LET upd == t.updateExisting
                   gone == upd /\ updateEntryRows(entries, t.userID, t.feedID, c.hash) = {}
               IN /\ entries' = IF upd THEN updateEntry(entries, t.userID, t.feedID, c, now)
                                       ELSE entries
                  /\ nextID' = nextID
                  /\ txs' = IF gone THEN [txs EXCEPT ![p] = [pc |-> "idle"]]
                                    ELSE [txs EXCEPT ![p].pc = "begin", ![p].i = t.i + 1]
                  /\ last' = [op |-> "updateEntry", p |-> p, err |-> gone]
          ELSE IF InsertRefused(entries, t.feedID, c.hash)
          THEN /\ entries' = entries
               /\ nextID' = nextID
               /\ txs' = [txs EXCEPT ![p] = [pc |-> "idle"]]
               /\ last' = [op |-> "createEntry", p |-> p, feedID |-> t.feedID,
                           hash |-> c.hash, err |-> TRUE]
          ELSE /\ entries' = createEntry(entries, nextID, t.userID, t.feedID, c, now)
               /\ nextID' = nextID + 1
               /\ txs' = [txs EXCEPT ![p].pc = "begin", ![p].i = t.i + 1]
               /\ last' = [op |-> "createEntry", p |-> p, feedID |-> t.feedID,
                           hash |-> c.hash, err |-> FALSE]
    /\ UNCHANGED <<tables, fetched, enclosures, now, sweeps>>

\* The loop is over: RefreshFeedEntries starts its cleanupEntries goroutine,
\* CreateFeed returns.
CallReturn(p) ==
    /\ txs[p].pc = "begin"
    /\ txs[p].i > Len(txs[p].entries)
    /\ IF txs[p].op = "RefreshFeedEntries"
       THEN /\ BagCardinality(sweeps) < MaxSweeps
            /\ sweeps' = sweeps (+) SetToBag({[feedID |-> txs[p].feedID,
                              entryHashes |-> [k \in 1..Len(txs[p].entries) |->
                                                  txs[p].entries[k].hash]]})
       ELSE sweeps' = sweeps
    /\ txs' = [txs EXCEPT ![p] = [pc |-> "idle"]]
    /\ last' = [op |-> "return", p |-> p]
    /\ UNCHANGED <<entries, tables, fetched, enclosures, nextID, now>>

\* The batches of the step-by-step calls: one hash, once or twice.
RaceBatches == {<<Candidate("A", "t1", now)>>,
                <<Candidate("A", "t1", now), Candidate("A", "t2", now)>>}

NextRace ==
    \/ \E p \in Procs, f \in 1..MaxFeeds, b \in RaceBatches, upd \in BOOLEAN :
          RefreshStart(p, f, b, upd)
    \/ \E p \in Procs, b \in RaceBatches : CreateFeedStart(p, 1, b)
    \/ \E p \in Procs : TxExists(p)
    \/ \E p \in Procs : TxWrite(p)
    \/ \E p \in Procs : CallReturn(p)
    \/ \E s \in BagToSet(sweeps) : CleanupEntries(s)

SpecRace == Init /\ [][NextRace]_vars

----------------------------------------------------------------------------
(* Sweeps that outlive the fetch that started them: RefreshFeedEntries     *)
(* returns without waiting for its goroutine (part_002:357-367), so the    *)
(* sweep of one fetch can still be pending when a later fetch of the same  *)
(* feed has returned.                                                      *)

MaxStale == 2       \* cleanupEntries goroutines pending at a time, here

\* RefreshFeedEntries while fewer than MaxStale goroutines are pending; a
\* call that returns without error becomes the latest fetch of its feed.
RefreshBesideSweeps(userID, feedID, batch, upd, failAt) ==
    /\ BagCardinality(sweeps) < MaxStale
    /\ RefreshCall(userID, feedID, batch, upd, failAt)
    /\ fetched' = IF last'.err THEN fetched
                  ELSE [fetched EXCEPT ![feedID] =
                           {batch[k].hash : k \in 1..Len(batch)}]

\* Two fetches of feed 1 that share no hash, and a fetch of both hashes.
StaleBatches == {<<Candidate("A", "t1", now)>>, <<Candidate("B", "t1", now)>>,
                 <<Candidate("A", "t1", now), Candidate("B", "t1", now)>>}

\* The user of feed 1 removes one entry or puts it back.
StaleStatusCalls ==
    {[userID |-> 1, entryIDs |-> {i}, status |-> st] :
        i \in 1..MaxID, st \in {EntryStatusRemoved, EntryStatusUnread}}

NextStale ==
    \/ \E b \in StaleBatches, failAt \in 0..1 :
          RefreshBesideSweeps(FeedUser(1), 1, b, FALSE, failAt)
    \/ \E s \in BagToSet(sweeps) : CleanupEntries(s)
    \/ \E c \in StaleStatusCalls : SetEntriesStatus(c.userID, c.entryIDs, c.status)

SpecStale == Init /\ [][NextStale]_vars

----------------------------------------------------------------------------
(* Entries of the navigator step by step (part_003:78-109): one            *)
(* transaction holds the two neighbour queries and the two getEntry        *)
(* queries, and other operations commit between them.                      *)

\* Mutant of TxRead: every query reads the table as it is when it runs.
TxReadLatest(snap, store) == store

\* What a query of the transaction reads: the table as it was at the first
\* read of the transaction.
TxRead(snap, store) == snap

\* tx := e.store.db.Begin()
EntriesBegin(p, userID, entryID, order, direction) ==
    /\ txs[p].pc = "idle"
    /\ txs' = [txs EXCEPT ![p] = [pc |-> "begun", op |-> "Entries",
                                  userID |-> userID, entryID |-> entryID,
                                  order |-> order, direction |-> direction,
                                  snap |-> {}, prevID |-> 0, nextID |-> 0]]
    /\ last' = [op |-> "Begin", p |-> p]
    /\ UNCHANGED <<entries, tables, fetched, enclosures, nextID, now, sweeps>>

\* tx.QueryRow(prevQuery): the first read of the transaction.
EntriesPrevQuery(p) ==
    /\ txs[p].pc = "begun"
    /\ txs[p].op = "Entries"
    /\ txs' = [txs EXCEPT ![p].pc = "prev",
                          ![p].snap = entries,
                          ![p].prevID = getPrevNextID(entries, txs[p].userID,
                                            txs[p].entryID, txs[p].order).prevID]
    /\ last' = [op |-> "prevQuery", p |-> p]
    /\ UNCHANGED <<entries, tables, fetched, enclosures, nextID, now, sweeps>>

\* tx.QueryRow(nextQuery)
EntriesNextQuery(p) ==
    /\ txs[p].pc = "prev"
    /\ txs' = [txs EXCEPT ![p].pc = "next",
                          ![p].nextID = getPrevNextID(TxRead(txs[p].snap, entries),
                                            txs[p].userID, txs[p].entryID,
                                            txs[p].order).nextID]
    /\ last' = [op |-> "nextQuery", p |-> p]
    /\ UNCHANGED <<entries, tables, fetched, enclosures, nextID, now, sweeps>>

\* getEntry(tx, prevID), getEntry(tx, nextID), tx.Commit() and the return.
EntriesReturn(p) ==
    /\ txs[p].pc = "next"
    /\ LET t == txs[p]
           prevEntry == getEntry(TxRead(t.snap, entries), t.prevID)
           nextEntry == getEntry(TxRead(t.snap, entries), t.nextID)
       IN last' = [op |-> "Entries", userID |-> t.userID, entryID |-> t.entryID,
                   order |-> t.order, direction |-> t.direction, dbOK |-> TRUE,
                   prev |-> IF t.direction = "desc" THEN nextEntry ELSE prevEntry,
                   next |-> IF t.direction = "desc" THEN prevEntry ELSE nextEntry,
                   err |-> FALSE]
    /\ txs' = [txs EXCEPT ![p] = [pc |-> "idle"]]
    /\ UNCHANGED <<entries, tables, fetched, enclosures, nextID, now, sweeps>>

\* The store the navigator starts from: entry 1 of feed 1, stored at time
\* 0; a fetch at time 1 can add a second entry.
InitSnap ==
    /\ entries = {StoredRow(1, 1, "A", EntryStatusUnread)}
    /\ feeds = DefaultFeeds
    /\ categories = DefaultCategories
    /\ txs = NoTx
    /\ fetched = NoFetch
    /\ users = Users
    /\ enclosures = {}
    /\ nextID = 2
    /\ now = 1
    /\ sweeps = EmptyBag
    /\ last = [op |-> "init"]

\* The writers beside the navigator: fetches of one candidate, and the user
\* removing an entry or putting it back.
SnapBatches == {<<Candidate("A", "t1", now)>>, <<Candidate("B", "t1", now)>>}

SnapStatusCalls ==
    {[userID |-> 1, entryIDs |-> {i}, status |-> st] :
        i \in {1, 2}, st \in {EntryStatusRemoved, EntryStatusUnread}}

NextSnap ==
    \/ \E b \in SnapBatches : RefreshFeedEntries(FeedUser(1), 1, b, FALSE, 0)
    \/ \E s \in BagToSet(sweeps) : CleanupEntries(s)
    \/ \E c \in SnapStatusCalls : SetEntriesStatus(c.userID, c.entryIDs, c.status)
    \/ \E id \in {1, 2}, direction \in Directions :
          EntriesBegin(1, 1, id, "published_at", direction)
    \/ EntriesPrevQuery(1)
    \/ EntriesNextQuery(1)
    \/ EntriesReturn(1)

SpecSnap == InitSnap /\ [][NextSnap]_vars

----------------------------------------------------------------------------
(* RefreshFeedEntries over a store whose entry the user has read, removed, *)
(* starred or shared.                                                      *)

\* One entry with hash A, in feed 1 or in feed 2, in any state a user can
\* leave it in.
FrameStores ==
    {{[StoredRow(1, f, "A", st) EXCEPT !.starred = star, !.share_code = code]} :
        f \in Feeds, st \in Statuses, star \in BOOLEAN, code \in {"", "s1"}}

InitFrame ==
    /\ entries \in FrameStores
    /\ feeds = DefaultFeeds
    /\ categories = DefaultCategories
    /\ txs = NoTx
    /\ fetched = NoFetch
    /\ users = Users
    /\ enclosures = {}
    /\ nextID = 2
    /\ now = 1
    /\ sweeps = EmptyBag
    /\ last = [op |-> "init"]

\* Fetches of feed 1: hash A with a new title, hash B, or both.
FrameBatches == {<<Candidate("A", "t2", now)>>, <<Candidate("B", "t1", now)>>,
                 <<Candidate("B", "t1", now), Candidate("A", "t2", now)>>}

NextFrame ==
    \/ \E b \in FrameBatches, upd \in BOOLEAN, failAt \in 0..1 :
          RefreshFeedEntries(FeedUser(1), 1, b, upd, failAt)
    \/ \E s \in BagToSet(sweeps) : CleanupEntries(s)

SpecFrame == InitFrame /\ [][NextFrame]_vars

----------------------------------------------------------------------------
(* RemoveUserAsync (part_001:1649-1693) step by step: the goroutine lists  *)
(* the feeds of the user, removes them one by one with RemoveFeed          *)
(* (part_004:585-614) and then deletes the row of the user.  The caller    *)
(* gets nothing back.                                                      *)

\* The feeds of a user.
FeedsOf(fs, userID) == {f \in DOMAIN fs : fs[f].user_id = userID}

\* Table feeds without the feeds in F.
WithoutFeeds(fs, F) == [f \in DOMAIN fs \ F |-> fs[f]]

\* if err := s.RemoveFeed(userID, feedID); err != nil { return err }
deleteUserFeedsStops(failure) == failure # "none"

\* RemoveFeed(userID, feedID): the entries are deleted one statement at a
\* time, then the feed.  failure names the statement that fails: "entry"
\* after the entries in D are deleted, "feed" at the DELETE of the feed.
\* The DELETE of the feed takes the entries left in the feed with it.
RemoveFeedResult(store, fs, userID, feedID, failure, D) ==
    LET E == {e \in store : e.user_id = userID /\ e.feed_id = feedID}
        mine == feedID \in FeedsOf(fs, userID)
    IN IF failure = "entry" THEN [entries |-> store \ D, feeds |-> fs]
       ELSE IF failure = "feed" THEN [entries |-> store \ E, feeds |-> fs]
       ELSE [entries |-> IF mine THEN {e \in store : e.feed_id # feedID}
                                 ELSE store \ E,
             feeds |-> IF mine THEN WithoutFeeds(fs, {feedID}) ELSE fs]

\* RemoveUserAsync(userID): go func() { ... }() and the return.
RemoveUserAsync(p, userID) ==
    /\ txs[p].pc = "idle"
    /\ txs' = [txs EXCEPT ![p] = [pc |-> "query", op |-> "RemoveUserAsync",
                                  userID |-> userID, todo |-> {}]]
    /\ last' = [op |-> "RemoveUserAsync", p |-> p, userID |-> userID]
    /\ UNCHANGED <<entries, tables, fetched, enclosures, nextID, now, sweeps>>

\* deleteUserFeeds: SELECT id FROM feeds WHERE user_id=?; an error ends the
\* task.
DeleteUserFeedsQuery(p) ==
    /\ txs[p].pc = "query"
    /\ \E dbOK \in BOOLEAN :
        /\ txs' = IF dbOK
                  THEN [txs EXCEPT ![p].pc = "rows",
                                   ![p].todo = FeedsOf(feeds, txs[p].userID)]
                  ELSE [txs EXCEPT ![p] = [pc |-> "idle"]]
        /\ last' = [op |-> "deleteUserFeeds", p |-> p, step |-> "Query", err |-> ~dbOK]
    /\ UNCHANGED <<entries, tables, fetched, enclosures, nextID, now, sweeps>>

\* One turn of for rows.Next() { ... RemoveFeed ... }.  rows.Next() is false
\* after the last row and also when the cursor fails; rows.Err() is not
\* looked at, so both end the loop and deleteUserFeeds returns nil.
DeleteUserFeedsNext(p) ==
    /\ txs[p].pc = "rows"
    /\ LET t == txs[p] IN
       \/ /\ t.todo = {}
          /\ txs' = [txs EXCEPT ![p].pc = "user"]
          /\ last' = [op |-> "deleteUserFeeds", p |-> p, step |-> "done", err |-> FALSE]
          /\ UNCHANGED <<entries, feeds>>
       \/ /\ t.todo # {}
          /\ txs' = [txs EXCEPT ![p].pc = "user"]
          /\ last' = [op |-> "deleteUserFeeds", p |-> p, step |-> "rows.Next", err |-> TRUE]
          /\ UNCHANGED <<entries, feeds>>
       \/ \E f \in t.todo, failure \in {"none", "entry", "feed"} :
          \E D \in SUBSET {e \in entries : e.user_id = t.userID /\ e.feed_id = f} :
             /\ failure = "entry" =>
                   D # {e \in entries : e.user_id = t.userID /\ e.feed_id = f}
             /\ failure # "entry" => D = {}
             /\ LET r == RemoveFeedResult(entries, feeds, t.userID, f, failure, D)
                IN /\ entries' = r.entries
                   /\ feeds' = r.feeds
             /\ txs' = IF deleteUserFeedsStops(failure)
                       THEN [txs EXCEPT ![p] = [pc |-> "idle"]]
                       ELSE [txs EXCEPT ![p].todo = t.todo \ {f}]
             /\ last' = [op |-> "RemoveFeed", p |-> p, userID |-> t.userID,
                         feedID |-> f, err |-> failure # "none"]
    /\ enclosures' = Cascade(enclosures, entries')
    /\ UNCHANGED <<categories, users, fetched, nextID, now, sweeps>>

\* s.db.Exec(`DELETE FROM users WHERE id=?`, userID), its error dropped.
\* ON DELETE CASCADE takes the categories, feeds and entries of the user.
DeleteUserRow(p) ==
    /\ txs[p].pc = "user"
    /\ \E dbOK \in BOOLEAN :
        LET u == txs[p].userID IN
        /\ users' = IF dbOK THEN users \ {u} ELSE users
        /\ feeds' = IF dbOK THEN WithoutFeeds(feeds, FeedsOf(feeds, u)) ELSE feeds
        /\ categories' = IF dbOK
                         THEN [c \in {x \in DOMAIN categories : categories[x].user_id # u}
                                  |-> categories[c]]
                         ELSE categories
        /\ entries' = IF dbOK
                      THEN {e \in entries : e.user_id # u /\ e.feed_id \notin FeedsOf(feeds, u)}
                      ELSE entries
        /\ last' = [op |-> "DELETE FROM users", p |-> p, userID |-> u, err |-> ~dbOK,
                    cascaded |-> IF dbOK THEN FeedsOf(feeds, u) ELSE {}]
    /\ txs' = [txs EXCEPT ![p] = [pc |-> "idle"]]
    /\ enclosures' = Cascade(enclosures, entries')
    /\ UNCHANGED <<fetched, nextID, now, sweeps>>

\* User 1 has feeds 1 and 2, user 2 has feed 3; a feed holds one entry or none.
TaskFeeds ==
    [f \in 1..3 |-> [user_id |-> IF f = 3 THEN 2 ELSE 1,
                     category_id |-> IF f = 3 THEN 2 ELSE 1,
                     hide_globally |-> FALSE]]

TaskStores ==
    {{[StoredRow(f, f, "A", EntryStatusUnread) EXCEPT !.user_id = TaskFeeds[f].user_id] :
         f \in F} : F \in SUBSET (1..3)}

InitTask ==
    /\ entries \in TaskStores
    /\ feeds = TaskFeeds
    /\ categories = DefaultCategories
    /\ users = Users
    /\ enclosures = {}
    /\ txs = NoTx
    /\ fetched = NoFetch
    /\ nextID = 4
    /\ now = 1
    /\ sweeps = EmptyBag
    /\ last = [op |-> "init"]

NextTask ==
    \/ \E u \in Users : u \in users /\ RemoveUserAsync(1, u)
    \/ DeleteUserFeedsQuery(1)
    \/ DeleteUserFeedsNext(1)
    \/ DeleteUserRow(1)

SpecTask == InitTask /\ [][NextTask]_vars

----------------------------------------------------------------------------
(* EntryShareCode statement by statement (part_002:680-700): the SELECT    *)
(* and the UPDATE run on the pool, outside any transaction, and another    *)
(* call can run between them.                                              *)

\* SELECT share_code FROM entries WHERE user_id=? AND id=?; without a row
\* the call returns the error at once, with a stored code it returns the
\* code at once.
ShareCodeSelect(p, userID, entryID) ==
    /\ txs[p].pc = "idle"
    /\ LET rows == RowsOfUser(entries, userID, {entryID})
           stored == IF rows = {} THEN "" ELSE (CHOOSE e \in rows : TRUE).share_code
       IN /\ txs' = IF rows # {} /\ stored = ""
                    THEN [txs EXCEPT ![p] = [pc |-> "generate", op |-> "EntryShareCode",
                                             userID |-> userID, entryID |-> entryID]]
                    ELSE txs
          /\ last' = [op |-> "EntryShareCode", p |-> p, userID |-> userID,
                      entryID |-> entryID, returned |-> ~(rows # {} /\ stored = ""),
                      err |-> rows = {}, shareCode |-> stored, previous |-> stored]
    /\ UNCHANGED <<entries, tables, fetched, enclosures, nextID, now, sweeps>>

\* shareCode = crypto.GenerateRandomStringHex(20), then UPDATE entries SET
\* share_code = ? WHERE user_id=? AND id=?, and the return.  The unique
\* index entries_share_code_idx refuses a code another row carries.
ShareCodeUpdate(p, code) ==
    /\ txs[p].pc = "generate"
    /\ LET t == txs[p]
           rows == RowsOfUser(entries, t.userID, {t.entryID})
           taken == \E e \in entries : e.share_code = code /\ e \notin rows
           err == rows # {} /\ taken
       IN /\ entries' = IF err THEN entries
                         ELSE {IF e \in rows THEN [e EXCEPT !.share_code = code] ELSE e :
                                  e \in entries}
          /\ last' = [op |-> "EntryShareCode", p |-> p, userID |-> t.userID,
                      entryID |-> t.entryID, returned |-> TRUE,
                      err |-> err, shareCode |-> code,
                      previous |-> IF rows = {} THEN ""
                                   ELSE (CHOOSE e \in rows : TRUE).share_code]
    /\ txs' = [txs EXCEPT ![p] = [pc |-> "idle"]]
    /\ UNCHANGED <<tables, fetched, enclosures, nextID, now, sweeps>>

\* Two entries of user 1 and one of user 2, none shared yet.
InitShare ==
    /\ entries = {StoredRow(1, 1, "A", EntryStatusUnread),
                  StoredRow(2, 1, "B", EntryStatusUnread),
                  StoredRow(3, 2, "A", EntryStatusUnread)}
    /\ feeds = DefaultFeeds
    /\ categories = DefaultCategories
    /\ users = Users
    /\ enclosures = {}
    /\ txs = NoTx
    /\ fetched = NoFetch
    /\ nextID = 4
    /\ now = 1
    /\ sweeps = EmptyBag
    /\ last = [op |-> "init"]

\* The calls: user 1 for its entries and for the entry of user 2.
ShareCalls == {[userID |-> 1, entryID |-> id] : id \in 1..3}

NextShare ==
    \/ \E p \in Procs, c \in ShareCalls : ShareCodeSelect(p, c.userID, c.entryID)
    \/ \E p \in Procs, code \in ShareCodes : ShareCodeUpdate(p, code)

SpecShare == InitShare /\ [][NextShare]_vars

----------------------------------------------------------------------------
(* RefreshFeedEntries with candidates that carry enclosures: the           *)
(* transaction of a candidate holds the write of the entry and one write   *)
(* per enclosure (part_002:166-175, 231-237), and any of them can fail.    *)

\* A candidate with the urls of its enclosures.
EnclCandidate(hash, title, date, urls) ==
    [hash |-> hash, title |-> title, date |-> date, enclosures |-> urls]

\* createEnclosure(tx, enclosure): one row per (user, entry, url).
createEnclosure(encl, userID, entryID, url) ==
    encl \cup {[user_id |-> userID, entry_id |-> entryID, url |-> url]}

\* The first n enclosures of candidate c written for the entry entryID, by
\* createEntry one at a time and by updateEnclosures as an upsert.
RECURSIVE WriteEnclosures(_, _, _, _, _)
WriteEnclosures(encl, userID, entryID, c, n) ==
    IF n = 0 THEN encl
    ELSE createEnclosure(WriteEnclosures(encl, userID, entryID, c, n - 1),
                         userID, entryID, c.enclosures[n])

\* The number of writes in the transaction of candidate c.
WritesOf(store, call, c) ==
    IF entryExists(store, call.feedID, c.hash)
      THEN IF call.updateExisting THEN 1 + Len(c.enclosures) ELSE 0
      ELSE 1 + Len(c.enclosures)

\* The tables as the transaction sees them after its first w writes: the
\* entry first, then the enclosures in their order.
Written(store, encl, id, call, c, t, w) ==
    IF w = 0 THEN [entries |-> store, enclosures |-> encl]
    ELSE IF entryExists(store, call.feedID, c.hash)
      THEN LET rows == updateEntryRows(store, call.userID, call.feedID, c.hash)
               eid == IF rows = {} THEN 0 ELSE (CHOOSE e \in rows : TRUE).id
           IN [entries |-> updateEntry(store, call.userID, call.feedID, c, t),
               enclosures |-> WriteEnclosures(encl, call.userID, eid, c, w - 1)]
      ELSE [entries |-> createEntry(store, id, call.userID, call.feedID, c, t),
            enclosures |-> WriteEnclosures(encl, call.userID, id, c, w - 1)]

\* Mutant of Rollback: the writes executed before the error stay.
RollbackKeepsWrites(before, written) == written

\* tx.Rollback(): the tables are as they were at Begin.
Rollback(before, written) == before

\* The transaction of one candidate; w is the number of writes that succeed
\* before one fails (w >= WritesOf: none fails).
EnclTx(store, encl, id, call, c, t, w) ==
    LET n == WritesOf(store, call, c)
        before == [entries |-> store, enclosures |-> encl]
        gone == /\ entryExists(store, call.feedID, c.hash) /\ call.updateExisting
                /\ updateEntryRows(store, call.userID, call.feedID, c.hash) = {}
    IN IF w < n \/ gone
         THEN [tables |-> Rollback(before, Written(store, encl, id, call, c, t,
                                                   IF gone THEN 0 ELSE w)),
               err |-> TRUE, isNew |-> FALSE]
         ELSE [tables |-> Written(store, encl, id, call, c, t, n),
               err |-> FALSE,
               isNew |-> ~entryExists(store, call.feedID, c.hash)]

\* The loop of RefreshFeedEntries from candidate i on; the candidate failAt
\* fails after w of its writes.
RECURSIVE EnclLoop(_, _, _, _, _, _)
EnclLoop(st, call, i, t, failAt, w) ==
    IF i > Len(call.entries)
      THEN st
      ELSE LET c == call.entries[i]
               tx == EnclTx(st.entries, st.enclosures, st.nextID, call, c, t,
                            IF i = failAt THEN w
                            ELSE WritesOf(st.entries, call, c))
           IN IF tx.err
                THEN [st EXCEPT !.entries = tx.tables.entries,
                                !.enclosures = tx.tables.enclosures,
                                !.err = TRUE, !.k = i]
                ELSE EnclLoop(
                       [entries |-> tx.tables.entries,
                        enclosures |-> tx.tables.enclosures,
                        nextID |-> IF tx.isNew THEN st.nextID + 1 ELSE st.nextID,
                        newEntries |-> IF tx.isNew
                                         THEN Append(st.newEntries,
                                                     [id |-> st.nextID, hash |-> c.hash])
                                         ELSE st.newEntries,
                        entryHashes |-> Append(st.entryHashes, c.hash),
                        err |-> FALSE,
                        k |-> 0],
                       call, i + 1, t, failAt, w)

EnclResult(store, encl, id, call, t, failAt, w) ==
    EnclLoop([entries |-> store, enclosures |-> encl, nextID |-> id,
              newEntries |-> <<>>, entryHashes |-> <<>>, err |-> FALSE, k |-> 0],
             call, 1, t, failAt, w)

\* RefreshFeedEntries(userID, feedID, batch, upd) with enclosures
RefreshEnclosures(userID, feedID, batch, upd, failAt, w) ==
    /\ BagCardinality(sweeps) < MaxSweeps
    /\ nextID + Len(batch) <= MaxID + 1
    /\ LET call == [userID |-> userID, feedID |-> feedID, entries |-> batch,
                    updateExisting |-> upd]
           r == EnclResult(entries, enclosures, nextID, call, now, failAt, w)
       IN /\ entries' = r.entries
          /\ enclosures' = r.enclosures
          /\ nextID' = r.nextID
          /\ sweeps' = sweeps (+) RefreshSweeps(r, feedID)
          /\ last' = [op |-> "RefreshFeedEntries", feedID |-> feedID,
                      entries |-> batch, updateExisting |-> upd,
                      err |-> r.err, k |-> r.k, w |-> w,
                      newEntries |-> RefreshReturned(r)]
    /\ UNCHANGED <<tables, txs, fetched, now>>

\* Candidates with one and with two enclosures, and batches of one or two.
EnclCandidates == {EnclCandidate("A", "t1", now, <<"u1">>),
                   EnclCandidate("A", "t2", now, <<"u1", "u2">>),
                   EnclCandidate("B", "t1", now, <<"u1", "u2">>)}

EnclBatches == UNION {[1..n -> EnclCandidates] : n \in 1..2}

NextEncl ==
    \/ \E b \in EnclBatches, upd \in BOOLEAN, failAt \in 0..2, w \in 0..2 :
          /\ failAt <= Len(b)
          /\ RefreshEnclosures(FeedUser(1), 1, b, upd, failAt, w)
    \/ \E s \in BagToSet(sweeps) : CleanupEntries(s)
    \/ \E id \in 1..2 : SetEntriesStatus(1, {id}, EntryStatusRemoved)

SpecEncl == Init /\ [][NextEncl]_vars

----------------------------------------------------------------------------
(* Properties of the reconciler, checked under Spec (C2: under SpecClock). *)

RowsOf(store, feedID, hash) ==
    {e \in store : e.feed_id = feedID /\ e.hash = hash}

Row(store, id) == CHOOSE e \in store : e.id = id

HasRow(store, id) == \E e \in store : e.id = id

\* The step taken is a call of RefreshFeedEntries.
Refreshed == last'.op = "RefreshFeedEntries"

\* The title the last candidate with hash h of batch b carries.
LastTitle(b, h) ==
    LET i == CHOOSE i \in 1..Len(b) :
                 b[i].hash = h /\ \A j \in (i + 1)..Len(b) : b[j].hash # h
    IN b[i].title

\* C1: a successful call with updateExisting=false leaves exactly one stored
\* entry for the (feedID, hash) of each candidate; for a candidate whose
\* (feedID, hash) was stored already (the same candidate a second time) the
\* stored row is left as it was, nothing is created and nothing is reported
\* as new.
C1_DedupIdempotent ==
    [][(Refreshed /\ ~last'.err /\ ~last'.updateExisting) =>
         \A i \in 1..Len(last'.entries) :
            LET h == last'.entries[i].hash
                f == last'.feedID
            IN /\ Cardinality(RowsOf(entries', f, h)) = 1
               /\ entryExists(entries, f, h) =>
                    /\ RowsOf(entries', f, h) = RowsOf(entries, f, h)
                    /\ \A n \in 1..Len(last'.newEntries) :
                          last'.newEntries[n].hash # h]_vars

\* C1 witness: a call with one candidate and updateExisting=false that found
\* the candidate stored: one row for it, nothing new reported.
C1_Witness ==
    /\ last.op = "RefreshFeedEntries"
    /\ ~last.err
    /\ ~last.updateExisting
    /\ Len(last.entries) = 1
    /\ last.newEntries = <<>>
    /\ Cardinality(RowsOf(entries, last.feedID, last.entries[1].hash)) = 1

\* The rows a call with updateExisting=true found stored for a candidate
\* that carries another title than the row.
Retitled(e) ==
    /\ Refreshed /\ ~last'.err /\ last'.updateExisting
    /\ e.feed_id = last'.feedID
    /\ \E i \in 1..Len(last'.entries) : last'.entries[i].hash = e.hash
    /\ LastTitle(last'.entries, e.hash) # e.title

C6_PartialBatch ==
    [][(Refreshed /\ last'.err) =>
         LET k == last'.k
             f == last'.feedID
             prefix == [userID |-> FeedUser(f), feedID |-> f,
                        entries |-> SubSeq(last'.entries, 1, k - 1),
                        updateExisting |-> last'.updateExisting]
         IN /\ k \in 1..Len(last'.entries)
            /\ last'.newEntries = <<>>
            /\ \A e \in entries : e \in entries' \/ e.hash \in {last'.entries[i].hash : i \in 1..(k - 1)}
            /\ \A i \in 1..(k - 1) : entryExists(entries', f, last'.entries[i].hash)
            /\ \A i \in k..Len(last'.entries) :
                  (\A j \in 1..(k - 1) : last'.entries[j].hash # last'.entries[i].hash)
                     => RowsOf(entries', f, last'.entries[i].hash)
                          = RowsOf(entries, f, last'.entries[i].hash)
            /\ entries' = RefreshResult(entries, nextID, prefix, now, 0).entries]_vars

\* C6 witness: a call failed at its second candidate, and the row created
\* for its first candidate by this call is stored.
C6_Witness ==
    /\ last.op = "RefreshFeedEntries"
    /\ last.err
    /\ last.k = 2
    /\ \E e \in entries :
          /\ e.id = nextID - 1
          /\ e.feed_id = last.feedID
          /\ e.hash = last.entries[1].hash
    /\ last.entries[2].hash # last.entries[1].hash
    /\ ~entryExists(entries, last.feedID, last.entries[2].hash)

\* The indices of the candidates of batch b that find no row of their
\* (feedID, hash) when they are processed: none stored before the call and
\* none created for an earlier candidate of the batch.
NewIndices(store, feedID, b) ==
    {i \in 1..Len(b) :
        /\ ~entryExists(store, feedID, b[i].hash)
        /\ \A j \in 1..(i - 1) : b[j].hash # b[i].hash}

RECURSIVE Ascending(_)
Ascending(S) ==
    IF S = {} THEN <<>>
    ELSE LET m == CHOOSE x \in S : \A y \in S : x <= y
         IN <<m>> \o Ascending(S \ {m})

C10_EmptyListNoop ==
    [][(last'.op = "SetEntriesStatus" /\ last'.empty) =>
         (entries' = entries /\ ~last'.err)]_vars

\* C10 witness: SetEntriesStatus was called with an empty list by a user
\* who has entries.
C10_Witness ==
    /\ last.op = "SetEntriesStatus"
    /\ last.empty
    /\ ~last.err
    /\ \E e \in entries : e.user_id = last.userID

----------------------------------------------------------------------------
(* Properties of the reaper. *)

Swept == last'.op = "cleanupEntries"

\* The rows a sweep of feed f with hash list hs is to delete.
Doomed(store, f, hs) ==
    {e \in store : e.feed_id = f /\ e.status = EntryStatusRemoved
                     /\ e.hash \notin Range(hs)}

\* C4: a sweep for feed F with hash list H deletes only rows of feed F with
\* status removed and a hash outside H; every other row (hash in H, status
\* unread or read, another feed) stays as it was, and no row is added.  With
\* removed rows A, B, C of F stored and H = <<A, C>>, a sweep that meets no
\* error deletes exactly the row of B.
C4_SweepDeletesOnly ==
    [][Swept =>
        /\ entries' \subseteq entries
        /\ entries \ entries' \subseteq Doomed(entries, last'.feedID, last'.entryHashes)
        /\ (/\ last'.entryHashes = <<"A", "C">>
            /\ ~last'.err
            /\ \A h \in Hashes : \E e \in entries :
                  e.feed_id = last'.feedID /\ e.hash = h /\ e.status = EntryStatusRemoved)
           => \E b \in entries :
                 /\ b.feed_id = last'.feedID /\ b.hash = "B"
                 /\ entries' = entries \ {b}]_vars

\* Removed rows A, B, C of feed 1 and removed row B of feed 2 were stored; the
\* sweep of feed 1 with <<A, C>> has deleted row 2 (B of feed 1) and nothing else.
C4_Witness ==
    /\ last.op = "cleanupEntries"
    /\ last.feedID = 1
    /\ last.entryHashes = <<"A", "C">>
    /\ last.deleted = {2}
    /\ {e.id : e \in {x \in entries : x.status = EntryStatusRemoved}} = {1, 3, 4}

\* C5: after a sweep for feed F with hash list H that meets no error, no row
\* of feed F with status removed and a hash outside H is stored, whatever H
\* is, the empty list included.
C5_SweepComplete ==
    [][(Swept /\ ~last'.err) =>
        Doomed(entries', last'.feedID, last'.entryHashes) = {}]_vars

\* C5 for the hash lists that are not empty (holds).
C5_SweepCompleteNonEmpty ==
    [][(Swept /\ ~last'.err /\ Len(last'.entryHashes) > 0) =>
        Doomed(entries', last'.feedID, last'.entryHashes) = {}]_vars

\* The sweep of an empty fetch has run without error and removed rows of its
\* feed are still stored.
C5_EmptySweepLeavesRows ==
    /\ last.op = "cleanupEntries"
    /\ ~last.err
    /\ last.entryHashes = <<>>
    /\ Doomed(entries, last.feedID, last.entryHashes) # {}

----------------------------------------------------------------------------
(* Properties of the bulk operations, checked under SpecBulk. *)

Exempt(e) == e.starred \/ e.share_code # ""

\* C3: no call of ArchiveEntries or FlushHistory, whatever its status, days,
\* limit and user, changes a row that is starred or has a share code; such a
\* row is never moved to removed, however old it is.
C3_ArchiveExempt ==
    [][last'.op \in {"ArchiveEntries", "FlushHistory"} =>
        \A e \in entries : Exempt(e) => e \in entries']_vars

\* ArchiveEntries has removed a row while a starred or shared row of the
\* status it was called with, old enough to be archived, has kept its status.
C3_Witness ==
    /\ last.op = "ArchiveEntries"
    /\ last.count >= 1
    /\ \E e \in entries :
        /\ Exempt(e)
        /\ e.status = last.status
        /\ e.status # EntryStatusRemoved
        /\ e.created_at < now - last.days

\* FlushHistory has left a read row of its user in place that is starred or shared.
C3_WitnessFlush ==
    /\ last.op = "FlushHistory"
    /\ ~last.err
    /\ \E e \in entries :
        Exempt(e) /\ e.user_id = last.userID /\ e.status = EntryStatusRead

----------------------------------------------------------------------------
(* Properties of the navigator, checked under SpecPage. *)

Paged == last.op = "Entries"

\* The entries user u can navigate.
Visible(u) == {e \in entries : e.user_id = u /\ e.status # EntryStatusRemoved}

DistinctValues(S, order) ==
    \A a \in S, b \in S : a # b => OrderValue(a, order) # OrderValue(b, order)

AsEntry(e) == [id |-> e.id, title |-> e.title]

\* C8: among the non-removed entries of one user, their ordering values
\* pairwise distinct, Entries with direction asc returns for an anchor among
\* them as prev the entry with the greatest value below the anchor's and as
\* next the entry with the smallest value above it; where there is none, the
\* side is nil, and there is no error.
C8_AscendingNeighbours ==
    (Paged /\ last.direction = "asc" /\ last.dbOK) =>
        \A a \in Visible(last.userID) :
            (a.id = last.entryID /\ DistinctValues(Visible(last.userID), last.order)) =>
                LET below == {e \in Visible(last.userID) :
                                 OrderValue(e, last.order) < OrderValue(a, last.order)}
                    above == {e \in Visible(last.userID) :
                                 OrderValue(e, last.order) > OrderValue(a, last.order)}
                IN /\ ~last.err
                   /\ IF below = {} THEN last.prev = NilEntry
                      ELSE \E p \in below :
                             /\ last.prev = AsEntry(p)
                             /\ \A e \in below :
                                   OrderValue(e, last.order) <= OrderValue(p, last.order)
                   /\ IF above = {} THEN last.next = NilEntry
                      ELSE \E n \in above :
                             /\ last.next = AsEntry(n)
                             /\ \A e \in above :
                                   OrderValue(n, last.order) <= OrderValue(e, last.order)

\* Entries 3, 1, 2 of user 1 are published in this order (e1 < e2 < e3 with
\* e2 = entry 1); from entry 1, ascending, prev is entry 3 and next is entry 2.
C8_Witness ==
    /\ Paged /\ last.direction = "asc" /\ last.order = "published_at"
    /\ last.userID = 1 /\ last.entryID = 1
    /\ {e.id : e \in Visible(1)} = {1, 2, 3}
    /\ \E e1 \in Visible(1), e2 \in Visible(1), e3 \in Visible(1) :
        /\ e1.id = 3 /\ e2.id = 1 /\ e3.id = 2
        /\ e1.published_at < e2.published_at /\ e2.published_at < e3.published_at
    /\ last.prev.id = 3 /\ last.next.id = 2 /\ ~last.err

\* From the first entry prev is nil, without error.
C8_WitnessFirst ==
    /\ Paged /\ last.direction = "asc" /\ last.order = "published_at"
    /\ Cardinality(Visible(last.userID)) = 3
    /\ DistinctValues(Visible(last.userID), last.order)
    /\ \E a \in Visible(last.userID) : a.id = last.entryID
    /\ last.prev = NilEntry /\ last.next # NilEntry /\ ~last.err

\* C9: with direction desc, Entries returns as (prev, next) the pair
\* (next, prev) it returns for the same anchor, order, user and store with
\* direction asc.
C9_DescSwaps ==
    (Paged /\ last.direction = "desc") =>
        LET asc == EntriesResult(entries, last.userID, last.entryID, last.order,
                                 "asc", last.dbOK)
        IN /\ last.prev = asc.next
           /\ last.next = asc.prev
           /\ last.err = asc.err

\* A descending call has returned two different entries.
C9_Witness ==
    /\ Paged /\ last.direction = "desc" /\ ~last.err
    /\ last.prev # NilEntry /\ last.next # NilEntry
    /\ last.prev # last.next

----------------------------------------------------------------------------
(* Properties of the bookmark operations, checked under SpecStar. *)

\* The rows of userID among the identifiers ids.
Owned(store, userID, ids) == {e \in store : e.user_id = userID /\ e.id \in ids}

\* store2 holds the rows of store, the starred flag of those in S set by
\* flag(e) and their changed_at left free, every other row as it was.
StarredOnly(store, store2, S, flag(_)) ==
    /\ {e.id : e \in store2} = {e.id : e \in store}
    /\ Cardinality(store2) = Cardinality(store)
    /\ \A e \in store : \E f \in store2 :
        /\ f.id = e.id
        /\ IF e \in S
           THEN f = [e EXCEPT !.starred = flag(e), !.changed_at = f.changed_at]
           ELSE f = e

Inverted(e) == ~e.starred

\* C11: ToggleBookmark on an entry of another user, or on no entry, returns
\* the error "nothing has been updated" and changes no row; on an entry of
\* userID it returns no error, inverts the starred flag of that entry and
\* leaves the flag of every other entry as it was.
C11_ToggleBookmark ==
    [][last'.op = "ToggleBookmark" =>
        LET own == Owned(entries, last'.userID, {last'.entryID})
        IN IF own = {}
           THEN last'.err /\ entries' = entries
           ELSE ~last'.err /\ StarredOnly(entries, entries', own, Inverted)]_vars

\* User 1 has toggled the entry of user 2, got the error, and the entry of
\* user 2, starred before, is starred still.
C11_Witness ==
    /\ last.op = "ToggleBookmark"
    /\ last.err
    /\ \E e \in entries :
        e.id = last.entryID /\ e.user_id # last.userID /\ e.starred

\* A toggle by the owner has succeeded and the entry is starred.
C11_WitnessOwn ==
    /\ last.op = "ToggleBookmark"
    /\ ~last.err
    /\ \E e \in entries :
        e.id = last.entryID /\ e.user_id = last.userID /\ e.starred /\ e.changed_at = now

\* C12: SetEntriesBookmarkedState returns the error "nothing has been
\* updated" exactly when its update affects no row, the id list empty or not;
\* it succeeds only when a row of userID is updated.
C12_NothingUpdated ==
    [][last'.op = "SetEntriesBookmarkedState" =>
        (last'.err <=> Owned(entries, last'.userID, last'.entryIDs) = {})]_vars

\* C12 for the id lists that are not empty (holds).
C12_NothingUpdatedNonEmpty ==
    [][(last'.op = "SetEntriesBookmarkedState" /\ last'.entryIDs # {}) =>
        /\ last'.err <=> Owned(entries, last'.userID, last'.entryIDs) = {}
        /\ StarredOnly(entries, entries',
                       Owned(entries, last'.userID, last'.entryIDs),
                       LAMBDA e : last'.starred)]_vars

\* The call with an empty list has returned without error, no row updated.
C12_EmptyListSucceeds ==
    /\ last.op = "SetEntriesBookmarkedState"
    /\ last.entryIDs = {}
    /\ ~last.err
    /\ entries # {}

----------------------------------------------------------------------------
(* More properties of ArchiveEntries and FlushHistory, checked under       *)
(* SpecBulk.                                                               *)

Archived == last'.op = "ArchiveEntries"

\* The rows ArchiveEntries(status, days, ...) may take at time t.
Archivable(store, status, days, t) ==
    {e \in store : e.status = status /\ ~Exempt(e) /\ e.created_at + days < t}

Least(a, b) == IF a < b THEN a ELSE b

\* store2 is store with the status of the rows in S set to st.
StatusSet(store, store2, S, st) ==
    store2 = {IF e \in S THEN [e EXCEPT !.status = st] ELSE e : e \in store}

\* C13: ArchiveEntries(status, days, limit) with days >= 0 and limit > 0 sets
\* to removed exactly min(limit, n) of the n rows that have the status, are
\* neither starred nor shared and were created more than days days ago, none
\* of them younger than a row it leaves, and returns how many it has set.
C13_ArchiveOldest ==
    [][(Archived /\ last'.days >= 0 /\ last'.limit > 0 /\ ~last'.err) =>
        LET c == Archivable(entries, last'.status, last'.days, now)
        IN \E S \in SUBSET c :
            /\ Cardinality(S) = Least(last'.limit, Cardinality(c))
            /\ \A a \in S, b \in c \ S : a.created_at <= b.created_at
            /\ StatusSet(entries, entries', S, EntryStatusRemoved)
            /\ last'.count = Cardinality(S)]_vars

\* Of two rows that could be archived, a call with limit 1 has taken the
\* older one, row 1, and left row 2.
C13_Witness ==
    /\ last.op = "ArchiveEntries"
    /\ last.limit = 1 /\ last.count = 1 /\ ~last.err
    /\ last.status # EntryStatusRemoved
    /\ \E a \in entries, b \in entries :
        /\ a.id = 1 /\ a.status = EntryStatusRemoved /\ ~Exempt(a)
        /\ b \in Archivable(entries, last.status, last.days, now)
        /\ a.created_at < b.created_at

\* C14: ArchiveEntries with days < 0 or limit <= 0 returns count 0 and no
\* error and changes no row.
C14_ArchiveNoop ==
    [][(Archived /\ (last'.days < 0 \/ last'.limit <= 0)) =>
        (last'.count = 0 /\ ~last'.err /\ entries' = entries)]_vars

\* A call with days < 0 and a positive limit has returned while rows of its
\* status, neither starred nor shared, are stored.
C14_Witness ==
    /\ last.op = "ArchiveEntries"
    /\ last.days < 0 /\ last.limit > 0
    /\ last.count = 0 /\ ~last.err
    /\ \E e \in entries : e.status = last.status /\ ~Exempt(e)

\* A call with limit 0 and days >= 0 has returned while rows it could
\* archive are stored.
C14_WitnessLimit ==
    /\ last.op = "ArchiveEntries"
    /\ last.days >= 0 /\ last.limit = 0
    /\ Archivable(entries, last.status, last.days, now) # {}

\* The rows FlushHistory(userID) is to set to removed.
Flushable(store, userID) ==
    {e \in store : e.user_id = userID /\ e.status = EntryStatusRead /\ ~Exempt(e)}

\* C15: FlushHistory(userID) sets to removed exactly the rows of userID that
\* are read, not starred and not shared; every other row (unread, removed,
\* starred, shared, of another user) is left as it was.
C15_FlushHistory ==
    [][last'.op = "FlushHistory" =>
        IF last'.err THEN entries' = entries
        ELSE entries' = {IF e \in Flushable(entries, last'.userID)
                         THEN [e EXCEPT !.status = EntryStatusRemoved, !.changed_at = now]
                         ELSE e : e \in entries}]_vars

\* FlushHistory of one user has removed that user's row and left the read,
\* unstarred, unshared row of the other user.
C15_Witness ==
    /\ last.op = "FlushHistory"
    /\ ~last.err
    /\ \E a \in entries, b \in entries :
        /\ a.user_id = last.userID /\ a.status = EntryStatusRemoved /\ a.changed_at = now
        /\ b.user_id # last.userID /\ b.status = EntryStatusRead /\ ~Exempt(b)

----------------------------------------------------------------------------
(* Properties of the Mark...AsRead family and of SetEntriesStatusCount,    *)
(* checked under SpecMark.                                                 *)

MarkOps == {"MarkAllAsRead", "MarkAllAsReadBeforeDate", "MarkFeedAsRead",
            "MarkCategoryAsRead", "MarkGloballyVisibleFeedsAsRead"}

DatedMarkOps == {"MarkAllAsReadBeforeDate", "MarkFeedAsRead", "MarkCategoryAsRead"}

\* Row e was unread and is read in store2, nothing but status and changed_at
\* written.
BecameRead(e, store2) ==
    /\ e.status = EntryStatusUnread
    /\ \E f \in store2 :
        /\ f.id = e.id
        /\ f.status = EntryStatusRead
        /\ f = [e EXCEPT !.status = EntryStatusRead, !.changed_at = f.changed_at]

\* C16: the operations of the Mark...AsRead family change only unread rows,
\* and only to read; a removed row never becomes read; the variants with a
\* cutoff change no row published at or after it, MarkFeedAsRead changes no
\* row of another feed and MarkCategoryAsRead no row of a feed of another
\* category.
C16_MarkAsRead ==
    [][last'.op \in MarkOps =>
        /\ Cardinality(entries') = Cardinality(entries)
        /\ \A e \in entries :
            \/ e \in entries'
            \/ /\ BecameRead(e, entries')
               /\ last'.op \in DatedMarkOps => e.published_at < last'.before
               /\ last'.op = "MarkFeedAsRead" => e.feed_id = last'.feedID
               /\ last'.op = "MarkCategoryAsRead" =>
                      feeds[e.feed_id].category_id = last'.categoryID]_vars

\* MarkFeedAsRead of feed 3 has marked its entry read; the entry of feed 1,
\* of the same user and published before the cutoff, is unread or removed
\* as before.
C16_Witness ==
    /\ last.op = "MarkFeedAsRead" /\ last.feedID = 3
    /\ \E a \in entries, b \in entries :
        /\ a.feed_id = 3 /\ a.status = EntryStatusRead /\ a.changed_at = now
        /\ a.published_at < last.before
        /\ b.feed_id = 1 /\ b.user_id = a.user_id /\ b.published_at < last.before
        /\ b.status # EntryStatusRead

\* A cutoff has kept an unread entry of the marked category unread.
C16_WitnessCutoff ==
    /\ last.op = "MarkCategoryAsRead"
    /\ \E e \in entries :
        /\ feeds[e.feed_id].category_id = last.categoryID
        /\ e.user_id = last.userID
        /\ e.status = EntryStatusUnread
        /\ e.published_at >= last.before

\* The rows of userID among ids whose feed and category are both shown
\* globally.
ShownGlobally(store, userID, ids) ==
    {e \in store : /\ e.user_id = userID /\ e.id \in ids
                   /\ ~feeds[e.feed_id].hide_globally
                   /\ ~categories[feeds[e.feed_id].category_id].hide_globally}

\* C17: SetEntriesStatusCount updates the rows as SetEntriesStatus does and
\* returns the number of rows of userID among ids whose feed and category
\* are both shown globally, counted after the update; for an empty list it
\* returns 0 and no error.
C17_StatusCount ==
    [][last'.op = "SetEntriesStatusCount" =>
        /\ entries' = SetEntriesStatusRows(entries, last'.userID, last'.entryIDs,
                                           last'.status, now)
        /\ last'.err = SetEntriesStatusErr(entries, last'.userID, last'.entryIDs,
                                           last'.status)
        /\ ~last'.err =>
              last'.count = Cardinality(ShownGlobally(entries', last'.userID,
                                                      last'.entryIDs))
        /\ last'.entryIDs = {} => (last'.count = 0 /\ ~last'.err)]_vars

\* User 1 has set entries 1, 2, 3 to removed: its entries 1 and 3 are
\* removed, entry 2 of user 2 is not, and the count is 1 because the
\* category of feed 1 is hidden while feed 1 is not.
C17_Witness ==
    /\ last.op = "SetEntriesStatusCount"
    /\ last.userID = 1 /\ last.entryIDs = {1, 2, 3} /\ ~last.err
    /\ last.status = EntryStatusRemoved
    /\ \A e \in entries : (e.status = EntryStatusRemoved) <=> (e.user_id = 1)
    /\ ~feeds[1].hide_globally /\ categories[1].hide_globally
    /\ ~feeds[3].hide_globally
    /\ last.count = 1

----------------------------------------------------------------------------
(* The scope of the bulk operations, checked under SpecScope. *)

\* The operations that take a userID.
UserOps == MarkOps \cup {"SetEntriesStatus", "SetEntriesStatusCount",
                         "SetEntriesBookmarkedState", "ToggleBookmark", "FlushHistory"}

BulkOps == UserOps \cup {"ArchiveEntries"}

\* The users whose rows the step has changed.
UsersChanged == {e.user_id : e \in entries \ entries'}

\* C18 as stated: a call of any bulk operation, ArchiveEntries included,
\* changes rows of one user at most.
C18_Original ==
    [][last'.op \in BulkOps => Cardinality(UsersChanged) <= 1]_vars

\* C18, amended: a call of a bulk operation that takes a userID changes no
\* row of another user, and no step adds or deletes a row.  (ArchiveEntries
\* takes no userID and is not bound by this.)
C18_UserScoped ==
    [][last'.op \in BulkOps =>
        /\ {e.id : e \in entries'} = {e.id : e \in entries}
        /\ last'.op \in UserOps => UsersChanged \subseteq {last'.userID}]_vars

\* User 1 has starred entries 1 and 2: entry 1, its own, is starred; entry 2,
\* of user 2, is not, and was not changed at this time.
C18_Witness ==
    /\ last.op = "SetEntriesBookmarkedState"
    /\ last.userID = 1 /\ last.entryIDs = {1, 2} /\ ~last.err
    /\ \E a \in entries, b \in entries :
        /\ a.id = 1 /\ a.user_id = 1 /\ a.starred /\ a.changed_at = now
        /\ b.id = 2 /\ b.user_id = 2 /\ ~b.starred /\ b.changed_at < now

\* One call of ArchiveEntries has removed the entries of both users.
C18_ArchiveAllUsers ==
    /\ last.op = "ArchiveEntries"
    /\ last.count = 2
    /\ \A e \in entries : e.status = EntryStatusRemoved
    /\ {e.user_id : e \in entries} = Users

----------------------------------------------------------------------------
(* The status column, checked under Spec. *)

StatusSetStep == last'.op = "SetEntriesStatus" /\ last'.status \notin Statuses

\* Every stored status is one of the three, and a row that appears starts
\* unread.
StatusEnum ==
    /\ [](\A e \in entries : e.status \in Statuses)
    /\ [][\A e \in entries' :
            (\A o \in entries : o.id # e.id) => e.status = EntryStatusUnread]_vars

\* C20 as stated: every stored status is unread, read or removed, a new
\* entry starts unread, and every call of SetEntriesStatus with another
\* status fails and stores nothing.
C20_Original ==
    /\ StatusEnum
    /\ [][StatusSetStep => (last'.err /\ entries' = entries)]_vars

\* C20, amended: every stored status is unread, read or removed and a new
\* entry starts unread; a call of SetEntriesStatus with another status
\* stores nothing, fails when its ids name a row of userID, and returns
\* without error when the list is empty or names no row of userID.
C20_StatusEnum ==
    /\ StatusEnum
    /\ [][StatusSetStep =>
            /\ entries' = entries
            /\ last'.err <=> Owned(entries, last'.userID, last'.entryIDs) # {}]_vars

\* A call with a status the schema refuses, naming a stored row of its
\* user, has failed.
C20_Witness ==
    /\ last.op = "SetEntriesStatus"
    /\ last.status \notin Statuses
    /\ last.err
    /\ Owned(entries, last.userID, last.entryIDs) # {}

\* A call with such a status has returned without error: its ids name no
\* row of its user.
C20_InvalidStatusSucceeds ==
    /\ last.op = "SetEntriesStatus"
    /\ last.status \notin Statuses
    /\ ~last.err
    /\ entries # {}


----------------------------------------------------------------------------
(* Uniqueness of (feed_id, hash) under concurrent calls.                   *)

\* No two stored entries share feed and hash.
UniqueFeedHash ==
    \A e1, e2 \in entries :
        (e1.feed_id = e2.feed_id /\ e1.hash = e2.hash) => e1.id = e2.id

\* Process p is about to insert a candidate whose (feed, hash) another
\* transaction has stored since p looked.
StaleInsert(p) ==
    /\ txs[p].pc = "checked"
    /\ ~txs[p].seen
    /\ RowsOf(entries, txs[p].feedID, txs[p].entries[txs[p].i].hash) # {}

\* C19: in every reachable state, also with RefreshFeedEntries and
\* CreateFeed calls interleaved on the same feed and hash, at most one
\* entry is stored per (feed_id, hash); the step of a call that would store
\* a second one stores nothing and ends the call with an error.
C19_UniqueFeedHash ==
    /\ []UniqueFeedHash
    /\ [][\A p \in Procs :
            (StaleInsert(p) /\ txs'[p] # txs[p]) =>
                /\ entries' = entries
                /\ last'.op = "createEntry" /\ last'.err
                /\ txs'[p].pc = "idle"]_vars

\* A call has just failed on an entry that a concurrent call stored.
C19_Witness ==
    /\ last.op = "createEntry"
    /\ last.err
    /\ Cardinality(RowsOf(entries, last.feedID, last.hash)) = 1
    /\ \E q \in Procs : q # last.p /\ txs[q].pc # "idle"


----------------------------------------------------------------------------
(* Sweeps and the latest fetch.                                            *)

\* C21: whenever a sweep deletes an entry, the entry has status removed and
\* its hash is absent from the latest completed fetch of its feed, and not
\* only from the fetch that started the sweep.
C21_SweepLatestFetch ==
    [][last'.op = "cleanupEntries" =>
          \A e \in entries \ entries' :
              /\ e.status = EntryStatusRemoved
              /\ e.hash \notin fetched[e.feed_id]]_vars

\* What holds instead: the deleted entry is removed and absent from the
\* fetch that started the sweep.
C21_SweepOwnFetch ==
    [][last'.op = "cleanupEntries" =>
          \A e \in entries \ entries' :
              /\ e.status = EntryStatusRemoved
              /\ e.feed_id = last'.feedID
              /\ e.hash \notin Range(last'.entryHashes)]_vars

\* A sweep has deleted an entry after a later fetch of its feed, with other
\* hashes, has returned.
C21_StaleSweepDeletes ==
    /\ last.op = "cleanupEntries" /\ last.deleted # {}
    /\ Range(last.entryHashes) # fetched[last.feedID]


----------------------------------------------------------------------------
(* The start of the sweep. *)

\* The hashes of a batch, in the order of the batch.
HashesOf(batch) == [k \in 1..Len(batch) |-> batch[k].hash]

\* C22: a RefreshFeedEntries call that returns without error has committed
\* every candidate of its batch and has started exactly one sweep, with the
\* hashes of all candidates of the batch (created, updated or skipped); a
\* call aborted by an error starts no sweep.
C22_SweepAfterBatch ==
    [][Refreshed =>
          IF last'.err
            THEN sweeps' = sweeps
            ELSE /\ sweeps' = sweeps (+)
                        SetToBag({[feedID |-> last'.feedID,
                                   entryHashes |-> HashesOf(last'.entries)]})
                 /\ \A k \in 1..Len(last'.entries) :
                        RowsOf(entries', last'.feedID, last'.entries[k].hash) # {}]_vars

\* A call has created one candidate and skipped another, and its sweep
\* carries both hashes.
C22_Witness ==
    /\ last.op = "RefreshFeedEntries" /\ ~last.err
    /\ Len(last.entries) = 2 /\ Len(last.newEntries) = 1
    /\ BagIn([feedID |-> last.feedID, entryHashes |-> HashesOf(last.entries)], sweeps)

\* A call was aborted at its second candidate, the first being committed,
\* and no sweep is pending.
C22_WitnessAbort ==
    /\ last.op = "RefreshFeedEntries" /\ last.err /\ last.k = 2
    /\ entries # {}
    /\ sweeps = EmptyBag


----------------------------------------------------------------------------
(* The neighbours of an anchor, checked under SpecPage. *)

\* What getPrevNextID found, whatever the direction Entries returns it in.
FoundPrev == IF last.direction = "desc" THEN last.next ELSE last.prev
FoundNext == IF last.direction = "desc" THEN last.prev ELSE last.next

\* The filtered rows before and after the anchor a.
Before(a) ==
    {e \in Visible(last.userID) :
        \/ OrderValue(e, last.order) < OrderValue(a, last.order)
        \/ (OrderValue(e, last.order) = OrderValue(a, last.order) /\ e.id > a.id)}

After(a) ==
    {e \in Visible(last.userID) :
        \/ OrderValue(e, last.order) > OrderValue(a, last.order)
        \/ (OrderValue(e, last.order) = OrderValue(a, last.order) /\ e.id < a.id)}

\* a comes before b in the order of (ordering field, created_at, id), the
\* first two ascending when up, descending otherwise, the id ascending
\* when idUp.
Sorted(a, b, up, idUp) ==
    LET va == OrderValue(a, last.order)
        vb == OrderValue(b, last.order)
    IN \/ (IF up THEN va < vb ELSE va > vb)
       \/ /\ va = vb
          /\ \/ (IF up THEN a.created_at < b.created_at ELSE a.created_at > b.created_at)
             \/ /\ a.created_at = b.created_at
                /\ (IF idUp THEN a.id < b.id ELSE a.id > b.id)

\* found is the first row of S in the order given, or nil when S is empty.
FirstOf(found, S, up, idUp) ==
    IF S = {} THEN found = NilEntry
    ELSE \E e \in S : /\ found = AsEntry(e)
                      /\ \A o \in S \ {e} : Sorted(e, o, up, idUp)

\* The statement as it was made: prev is the first row before the anchor in
\* descending order of (ordering field, created_at, id), next the first row
\* after it in ascending order of (ordering field, created_at, id).
C23_Original ==
    (Paged /\ last.dbOK) =>
        \A a \in entries :
            a.id = last.entryID =>
                /\ FirstOf(FoundPrev, Before(a), FALSE, FALSE)
                /\ FirstOf(FoundNext, After(a), TRUE, TRUE)

\* C23: the previous neighbour of an anchor is the first row, ordered by
\* ordering field descending, created_at descending, id ascending, among the
\* filtered rows whose ordering value is less than the anchor's or equal to
\* it with a greater id; the next neighbour is the first row, ordered by
\* ordering field ascending, created_at ascending, id descending, among the
\* filtered rows whose ordering value is greater than the anchor's or equal
\* to it with a lesser id.
C23_Neighbours ==
    (Paged /\ last.dbOK) =>
        \A a \in entries :
            a.id = last.entryID =>
                /\ FirstOf(FoundPrev, Before(a), FALSE, TRUE)
                /\ FirstOf(FoundNext, After(a), TRUE, FALSE)

\* Three rows share ordering value and created_at: from the last of them
\* the next neighbour is the one with the greatest lesser id, from the first
\* the previous neighbour is the one with the least greater id.
C23_Witness ==
    /\ Paged /\ last.dbOK /\ last.order = "published_at" /\ last.entryID = 3
    /\ Cardinality(Visible(1)) = 3 /\ last.userID = 1
    /\ \A a \in Visible(1), b \in Visible(1) :
          a.published_at = b.published_at /\ a.created_at = b.created_at
    /\ FoundNext.id = 2 /\ FoundPrev = NilEntry


----------------------------------------------------------------------------
(* The snapshot of the navigator, checked under SpecSnap. *)

\* Process p returns from Entries in this step.
Returns(p) == txs[p].pc = "next" /\ txs'[p].pc = "idle"

\* C24: the neighbours one Entries call returns are those of one snapshot
\* of the store, the one its first lookup read: what another operation
\* commits between the two lookups (an insert, a status change, a delete)
\* is not visible to the second lookup.
C24_OneSnapshot ==
    [][\A p \in Procs :
          Returns(p) =>
              LET t == txs[p]
                  r == EntriesResult(t.snap, t.userID, t.entryID, t.order,
                                     t.direction, TRUE)
              IN last'.prev = r.prev /\ last'.next = r.next /\ ~last'.err]_vars

\* A call is between its two lookups and the store has changed since the
\* first one, in a way the second lookup would see.
C24_Witness ==
    \E p \in Procs :
        /\ txs[p].pc = "prev"
        /\ getPrevNextID(entries, txs[p].userID, txs[p].entryID, txs[p].order).nextID
             # getPrevNextID(txs[p].snap, txs[p].userID, txs[p].entryID,
                             txs[p].order).nextID

\* A call has returned a next neighbour that the store no longer shows.
C24_WitnessReturned ==
    /\ Paged /\ last.direction = "asc" /\ last.next # NilEntry
    /\ getPrevNextID(entries, last.userID, last.entryID, last.order).nextID = 0


----------------------------------------------------------------------------
(* What RefreshFeedEntries leaves alone, checked under SpecFrame. *)

\* The hashes of a batch of candidates.
BatchHashes(batch) == {batch[k].hash : k \in 1..Len(batch)}

\* C25: RefreshFeedEntries itself, its sweep apart, deletes no stored entry,
\* leaves every stored entry whose hash is not among the candidates of the
\* call (or that belongs to another feed) exactly as it was, and leaves the
\* status, the starred flag and the share code of every stored entry as
\* they were.
C25_RefreshFrame ==
    [][Refreshed =>
          \A e \in entries :
              \E e2 \in entries' :
                  /\ e2.id = e.id
                  /\ e2.status = e.status
                  /\ e2.starred = e.starred
                  /\ e2.share_code = e.share_code
                  /\ (e.hash \notin BatchHashes(last'.entries) \/ e.feed_id # last'.feedID)
                        => e2 = e]_vars

\* A call has updated the title of an entry that is removed, starred and
\* shared.
C25_Witness ==
    /\ last.op = "RefreshFeedEntries" /\ ~last.err /\ last.updateExisting
    /\ \E e \in entries :
          /\ e.feed_id = last.feedID /\ e.title = "t2"
          /\ e.status = EntryStatusRemoved /\ e.starred /\ e.share_code # ""

\* A call has created an entry with the hash that an entry of another feed
\* carries.
C25_WitnessOtherFeed ==
    /\ last.op = "RefreshFeedEntries" /\ ~last.err
    /\ \E e \in entries, o \in entries :
          e.feed_id = 1 /\ o.feed_id = 2 /\ e.hash = o.hash /\ o.starred


----------------------------------------------------------------------------
(* The deletion of a user, checked under SpecTask. *)

\* The row of user u is deleted in this step.
UserDeleted(u) == u \in users /\ u \notin users'

\* C26: the detached task deletes the row of the user only after all feeds
\* of the user have been removed; if removing a feed fails the task stops
\* there, and the row of the user and the feeds not yet removed stay stored.
C26_UserAfterFeeds ==
    [][/\ \A u \in Users : UserDeleted(u) => FeedsOf(feeds, u) = {}
       /\ (last'.op = "RemoveFeed" /\ last'.err) =>
              /\ feeds' = feeds /\ users' = users
              /\ txs'[last'.p].pc = "idle"]_vars

\* What holds of the failure of RemoveFeed: the task stops, and the row of
\* the user and every feed stay stored.
C26_StopsAtFailedFeed ==
    [][(last'.op = "RemoveFeed" /\ last'.err) =>
          /\ feeds' = feeds /\ users' = users
          /\ txs'[last'.p].pc = "idle"]_vars

\* The row of a user has been deleted while feeds of the user were stored,
\* and the cascade has taken them.
C26_UserDeletedBeforeFeeds ==
    /\ last.op = "DELETE FROM users" /\ ~last.err
    /\ last.userID \notin users
    /\ last.cascaded # {}


----------------------------------------------------------------------------
(* Previous and next as inverses, checked under SpecPage. *)

\* The call was made with direction asc from an entry the user can navigate
\* and has returned a next neighbour.
HasNext ==
    /\ Paged /\ last.direction = "asc" /\ last.dbOK /\ ~last.err
    /\ \E a \in Visible(last.userID) : a.id = last.entryID
    /\ last.next # NilEntry

\* What Entries returns as prev from the next neighbour just returned.
PrevOfNext ==
    EntriesResult(entries, last.userID, last.next.id, last.order, "asc", TRUE).prev

\* C27: with direction asc, if Entries for anchor A returns next = B, then
\* Entries for anchor B with the same filters returns prev = A, also when
\* entries share the ordering value and differ in created_at.
C27_MutualInverse == HasNext => PrevOfNext.id = last.entryID

\* What holds: the same, when the entries that share an ordering value
\* share created_at too.
C27_InverseOnEqualCreation ==
    (HasNext /\ \A a \in Visible(last.userID), b \in Visible(last.userID) :
                   OrderValue(a, last.order) = OrderValue(b, last.order)
                       => a.created_at = b.created_at)
        => PrevOfNext.id = last.entryID

\* Entries 1, 2 and 3 share published_at and entry 3 was created later:
\* from entry 2 next is entry 1, and from entry 1 prev is entry 3.
C27_NotInverse ==
    /\ HasNext /\ last.order = "published_at"
    /\ last.entryID = 2 /\ last.next.id = 1
    /\ PrevOfNext.id = 3


----------------------------------------------------------------------------
(* MarkGloballyVisibleFeedsAsRead and the hide-globally flags, checked     *)
(* under SpecMark.                                                         *)

\* The feed of entry e or the category of that feed is hidden globally.
Hidden(e) ==
    \/ feeds[e.feed_id].hide_globally
    \/ categories[feeds[e.feed_id].category_id].hide_globally

\* C28: MarkGloballyVisibleFeedsAsRead never changes an entry that is not
\* globally visible, that is, an entry whose feed or whose category has the
\* hide-globally flag set.
C28_HiddenUntouched ==
    [][last'.op = "MarkGloballyVisibleFeedsAsRead" =>
          \A e \in entries : Hidden(e) => e \in entries']_vars

\* What holds: no entry of a feed that has the flag set is changed.
C28_HiddenFeedUntouched ==
    [][last'.op = "MarkGloballyVisibleFeedsAsRead" =>
          \A e \in entries : feeds[e.feed_id].hide_globally => e \in entries']_vars

\* The call has marked as read an entry whose category is hidden globally.
C28_HiddenCategoryMarked ==
    /\ last.op = "MarkGloballyVisibleFeedsAsRead"
    /\ \E e \in entries :
          /\ e.user_id = last.userID
          /\ e.status = EntryStatusRead /\ e.changed_at = now
          /\ categories[feeds[e.feed_id].category_id].hide_globally
          /\ ~feeds[e.feed_id].hide_globally


----------------------------------------------------------------------------
(* The share code under concurrent calls, checked under SpecShare. *)

\* A call of EntryShareCode returns without error in this step.
ShareReturned == last'.op = "EntryShareCode" /\ last'.returned /\ ~last'.err

\* The code stored for entry id in store.
StoredCode(store, id) == (CHOOSE e \in store : e.id = id).share_code

\* C29: every share code EntryShareCode returns without error is the code
\* stored for the entry when the call has completed, and an entry that has
\* a share code keeps it across further calls, so that two concurrent calls
\* for an entry not yet shared return the same code.
C29_ShareCode ==
    [][/\ ShareReturned => StoredCode(entries', last'.entryID) = last'.shareCode
       /\ \A e \in entries :
             e.share_code # "" => StoredCode(entries', e.id) = e.share_code]_vars

\* What holds: the code a call returns is the code stored when it returns.
C29_ReturnedIsStored ==
    [][ShareReturned => StoredCode(entries', last'.entryID) = last'.shareCode]_vars

\* A call has returned a new code for an entry that carried the code another
\* call had returned.
C29_CodeReplaced ==
    /\ last.op = "EntryShareCode" /\ last.returned /\ ~last.err
    /\ last.previous # "" /\ last.previous # last.shareCode
    /\ StoredCode(entries, last.entryID) = last.shareCode


----------------------------------------------------------------------------
(* The rollback of a failed candidate, checked under SpecEncl. *)

\* The call without the failed candidate and those behind it.
Prefix ==
    [userID |-> FeedUser(last'.feedID), feedID |-> last'.feedID,
     entries |-> SubSeq(last'.entries, 1, last'.k - 1),
     updateExisting |-> last'.updateExisting]

\* C30: if creating or updating candidate k fails after part of its writes
\* were executed, its transaction is rolled back: when RefreshFeedEntries
\* has returned, the tables hold what the candidates before k wrote and
\* nothing of candidate k, neither an entry row nor an enclosure, and every
\* stored enclosure belongs to a stored entry.
C30_FailedCandidateRolledBack ==
    [][(Refreshed /\ last'.err) =>
          LET r == EnclResult(entries, enclosures, nextID, Prefix, now, 0, 0)
              c == last'.entries[last'.k]
          IN /\ entries' = r.entries
             /\ enclosures' = r.enclosures
             /\ RowsOf(r.entries, last'.feedID, c.hash) = {} =>
                   RowsOf(entries', last'.feedID, c.hash) = {}
             /\ \A x \in enclosures' : HasRow(entries', x.entry_id)]_vars

\* A call was aborted at its second candidate after the entry row and one
\* enclosure of that candidate had been written; the first candidate is
\* stored with its enclosure and nothing of the second.
C30_Witness ==
    /\ last.op = "RefreshFeedEntries" /\ last.err /\ last.k = 2 /\ last.w = 2
    /\ last.entries[1].hash # last.entries[2].hash
    /\ RowsOf(entries, last.feedID, last.entries[1].hash) # {}
    /\ RowsOf(entries, last.feedID, last.entries[2].hash) = {}
    /\ enclosures # {}

====
